---- MODULE Spec2Model ----
(***************************************************************************)
(* A model of esplugin's Plugin type (src/src/plugin.rs): the record-id    *)
(* state of a plugin (None, FormIds, NamespacedIds, Resolved), the two     *)
(* operations that change it (parse_reader / parse_file and                *)
(* resolve_record_ids) and the queries that read it.                       *)
(*                                                                         *)
(* Representation.                                                         *)
(*  - A u32 is a pair <<hi, lo>> of its 16-bit halves, so that masks such  *)
(*    as 0xFD00_0000 stay exact.                                           *)
(*  - A file name is the sequence of its dot-separated segments            *)
(*    ("Blank.esm" is <<"Blank", "esm">>); a path is a directory and such  *)
(*    a name, the empty name standing for a path without a final           *)
(*    component.                                                           *)
(*  - A Result is a record with ok, value and error fields.                *)
(***************************************************************************)
EXTENDS Integers, Sequences, FiniteSets, TLC

VARIABLES plugins, last

vars == <<plugins, last>>

(***************************************************************************)
(* Bounds of the model.                                                    *)
(***************************************************************************)
MaxIds == 2
MaxOthers == 2

(***************************************************************************)
(* Generic helpers.                                                        *)
(***************************************************************************)
SeqsUpTo(S, n) == UNION {[1..k -> S] : k \in 0..n}

\* The path of a value that carries none.
NoPath == [dir |-> "", file_name |-> <<>>]

Ok(v) == [ok |-> TRUE, value |-> v, error |-> [kind |-> "None", path |-> NoPath, name |-> <<>>]]

Err(e) == [ok |-> FALSE, value |-> <<>>, error |-> e]

IoError == [kind |-> "IoError", path |-> NoPath, name |-> <<>>]

ParsingError == [kind |-> "ParsingError", path |-> NoPath, name |-> <<>>]

NoFilename(path) == [kind |-> "NoFilename", path |-> path, name |-> <<>>]

UnresolvedRecordIds(path) == [kind |-> "UnresolvedRecordIds", path |-> path, name |-> <<>>]

PluginMetadataNotFound(name) == [kind |-> "PluginMetadataNotFound", path |-> NoPath, name |-> name]

\* The panic 'attempt to add with overflow': it unwinds through the callers
\* as an early return does, so it is carried as the error of their results.
AddOverflow == [kind |-> "AddOverflow", path |-> NoPath, name |-> <<>>]

(***************************************************************************)
(* Strings: TLA+ strings are atomic, so case folding and the lexical order *)
(* are tables over the strings the model uses.                             *)
(***************************************************************************)
\* unicase / eq_ignore_ascii_case fold: the lower-case form of a segment.
FoldSegment(s) ==
    CASE s \in {"Blank", "BLANK", "blank"} -> "blank"
      [] s \in {"Dep", "DEP", "dep"} -> "dep"
      [] s \in {"esm", "ESM", "Esm"} -> "esm"
      [] s \in {"esp", "ESP"} -> "esp"
      [] s \in {"esl", "ESL"} -> "esl"
      [] s \in {"ghost", "GHOST", "Ghost"} -> "ghost"
      [] OTHER -> s

\* The strings of the model in ascending byte order.
StringOrder == <<"", "ACTI", "CELL", "GMST", "a", "b", "blank", "c", "dep", "esl", "esm", "esp", "ghost">>

StringRank(s) == CHOOSE i \in 1..Len(StringOrder) : StringOrder[i] = s

FoldName(name) == [i \in 1..Len(name) |-> FoldSegment(name[i])]

\* unicase::eq on two file names.
UnicaseEq(a, b) == FoldName(a) = FoldName(b)

RECURSIVE NameLess(_, _)
\* Lexical order of two folded names, segment by segment.
NameLess(a, b) ==
    IF Len(b) = 0 THEN FALSE
    ELSE IF Len(a) = 0 THEN TRUE
    ELSE IF StringRank(Head(a)) # StringRank(Head(b))
         THEN StringRank(Head(a)) < StringRank(Head(b))
    ELSE NameLess(Tail(a), Tail(b))

(***************************************************************************)
(* 32-bit values and the object index masks.                               *)
(***************************************************************************)
\* ObjectIndexMask: Full = 0x00FF_FFFF, Medium = 0x0000_FFFF, Small = 0x0000_0FFF.
ObjectIndexMaskOf(scale) ==
    CASE scale = "Full" -> <<255, 65535>>
      [] scale = "Medium" -> <<0, 65535>>
      [] scale = "Small" -> <<0, 4095>>

\* x & mask, for a mask whose halves are of the form 2^k - 1.
BitAnd(x, mask) == <<x[1] % (mask[1] + 1), x[2] % (mask[2] + 1)>>

\* x & !mask, for such a mask.
BitAndNot(x, mask) == <<x[1] - (x[1] % (mask[1] + 1)), x[2] - (x[2] % (mask[2] + 1))>>

\* A value below 2^24 as a number.
ToNat(x) == x[1] * 65536 + x[2]

(***************************************************************************)
(* Record ids.                                                             *)
(***************************************************************************)
NoNamespacedId == [record_type |-> "", id |-> ""]

\* NamespacedId's derived order: by record type, then by id.
NamespacedIdLess(a, b) ==
    IF a.record_type # b.record_type
    THEN StringRank(a.record_type) < StringRank(b.record_type)
    ELSE StringRank(a.id) < StringRank(b.id)

\* SourcePlugin::master.
SourcePluginMaster(name, mod_index_mask, object_index_mask) ==
    [name |-> FoldName(name), mod_index_mask |-> mod_index_mask,
     object_index_mask |-> object_index_mask]

\* SourcePlugin::parent: the parent's mod index mask is its object index mask.
SourcePluginParent(name, object_index_mask) ==
    [name |-> FoldName(name), mod_index_mask |-> object_index_mask,
     object_index_mask |-> object_index_mask]

ResolvedFormId(source, raw, overridden) ==
    [kind |-> "FormId", source |-> source.name,
     object_index |-> ToNat(BitAnd(raw, source.object_index_mask)),
     namespaced_id |-> NoNamespacedId, overridden_record |-> overridden]

RECURSIVE FindMasterBetween(_, _, _, _)
\* The first master at the positions lo..hi whose mod index mask matches the
\* raw form id, as a sequence of at most one element: the first half is
\* searched before the second.
FindMasterBetween(masters, raw, lo, hi) ==
    IF lo > hi THEN <<>>
    ELSE IF lo = hi
         THEN IF BitAndNot(raw, masters[lo].object_index_mask) = masters[lo].mod_index_mask
              THEN <<masters[lo]>>
              ELSE <<>>
    ELSE LET mid == (lo + hi) \div 2
             found == FindMasterBetween(masters, raw, lo, mid)
         IN  IF found # <<>> THEN found ELSE FindMasterBetween(masters, raw, mid + 1, hi)

\* The first master whose mod index mask matches the raw form id, as a
\* sequence of at most one element.
FindMaster(masters, raw) == FindMasterBetween(masters, raw, 1, Len(masters))

\* ResolvedRecordId::from_form_id.
FromFormId(parent, masters, raw) ==
    LET found == FindMaster(masters, raw)
    IN  IF found # <<>>
        THEN ResolvedFormId(found[1], raw, TRUE)
        ELSE ResolvedFormId(parent, raw, FALSE)

\* ResolvedRecordId::from_namespaced_id.
FromNamespacedId(id, masters_record_ids) ==
    [kind |-> "NamespacedId", source |-> <<>>, object_index |-> 0,
     namespaced_id |-> id, overridden_record |-> id \in masters_record_ids]

\* ResolvedRecordId's order: by (source plugin, object index) for form ids,
\* by namespaced id for namespaced ids, form ids first.
ResolvedLess(a, b) ==
    IF a.kind # b.kind THEN a.kind = "FormId"
    ELSE IF a.kind = "NamespacedId" THEN NamespacedIdLess(a.namespaced_id, b.namespaced_id)
    ELSE IF a.source # b.source THEN NameLess(a.source, b.source)
    ELSE a.object_index < b.object_index

\* The < of the element type of a list of ids.
Less(a, b) ==
    IF "kind" \in DOMAIN a THEN ResolvedLess(a, b) ELSE NamespacedIdLess(a, b)

RECURSIVE Insert(_, _)
Insert(sorted, x) ==
    IF sorted = <<>> THEN <<x>>
    ELSE IF Less(x, Head(sorted)) THEN <<x>> \o sorted
    ELSE <<Head(sorted)>> \o Insert(Tail(sorted), x)

RECURSIVE SortIds(_)
\* Vec::sort: a stable ascending sort.
SortIds(list) ==
    IF list = <<>> THEN <<>>
    ELSE Insert(SortIds(SubSeq(list, 1, Len(list) - 1)), list[Len(list)])

RECURSIVE BinarySearchFrom(_, _, _, _)
\* slice::binary_search(..).is_ok() on the half-open index range [left, right).
BinarySearchFrom(list, id, left, right) ==
    IF left >= right THEN FALSE
    ELSE LET mid == left + ((right - left) \div 2)
         IN  IF Less(list[mid + 1], id) THEN BinarySearchFrom(list, id, mid + 1, right)
             ELSE IF Less(id, list[mid + 1]) THEN BinarySearchFrom(list, id, left, mid)
             ELSE TRUE

BinarySearchIsOk(list, id) == BinarySearchFrom(list, id, 0, Len(list))

RECURSIVE IntersectFrom(_, _, _, _)
IntersectFrom(left, right, i, j) ==
    IF i > Len(left) \/ j > Len(right) THEN FALSE
    ELSE IF Less(left[i], right[j]) THEN IntersectFrom(left, right, i + 1, j)
    ELSE IF Less(right[j], left[i]) THEN IntersectFrom(left, right, i, j + 1)
    ELSE TRUE

RECURSIVE IntersectFromSkippingEqual(_, _, _, _)
\* The merge walk with <= for <: equal elements are stepped over.
IntersectFromSkippingEqual(left, right, i, j) ==
    IF i > Len(left) \/ j > Len(right) THEN FALSE
    ELSE IF ~Less(right[j], left[i]) THEN IntersectFromSkippingEqual(left, right, i + 1, j)
    ELSE IF Less(right[j], left[i]) THEN IntersectFromSkippingEqual(left, right, i, j + 1)
    ELSE TRUE

sorted_slices_intersect_skipping_equal(left, right) ==
    IntersectFromSkippingEqual(left, right, 1, 1)

sorted_slices_intersect(left, right) == IntersectFrom(left, right, 1, 1)

(***************************************************************************)
(* Games and their capabilities.                                           *)
(***************************************************************************)
Games == {"Morrowind", "Oblivion", "Fallout3", "FalloutNV", "Fallout4", "Skyrim", "SkyrimSE",
          "Starfield"}

supports_light_plugins(game_id) == game_id \in {"Fallout4", "SkyrimSE", "Starfield"}

supports_medium_plugins(game_id) == game_id = "Starfield"

(***************************************************************************)
(* The plugin: its data, and the accessors the operations use.             *)
(***************************************************************************)
RecordIdsNone == [variant |-> "None", ids |-> <<>>]

FormIds(ids) == [variant |-> "FormIds", ids |-> ids]

NamespacedIds(ids) == [variant |-> "NamespacedIds", ids |-> ids]

Resolved(ids) == [variant |-> "Resolved", ids |-> ids]

\* The data of a HEDR subrecord as far as the plugin reads it: the version
\* in hundredths if the data has the four bytes of the float, and byte 4 if
\* the data has a fifth byte.
Hedr(version, byte4) == [version |-> version, byte4 |-> byte4]

\* Record::default(): no header type, no flags, no subrecords.  hedr is the
\* first HEDR subrecord as a sequence of at most one element.
DefaultHeaderRecord == [header_type |-> "", flags |-> 0, masters |-> <<>>, hedr |-> <<>>]

\* PluginData::default().
DefaultPluginData == [header_record |-> DefaultHeaderRecord, record_ids |-> RecordIdsNone]

\* Plugin::new.
NewPlugin(game_id, path) == [game_id |-> game_id, path |-> path, data |-> DefaultPluginData]

\* Plugin::filename: a sequence of at most one name.
filename(self) == IF self.path.file_name = <<>> THEN <<>> ELSE <<self.path.file_name>>

\* masters(): the decoded MAST subrecords, in header order.  Windows-1252
\* maps every byte, so the decoding never fails.
masters(header_record) == Ok(header_record.masters)

\* Path::extension of a file name: a sequence of at most one segment.
PathExtension(name) ==
    IF Len(name) < 2 \/ (Len(name) = 2 /\ name[1] = "") THEN <<>>
    ELSE <<name[Len(name)]>>

\* Path::file_stem of a file name.
PathFileStem(name) ==
    IF PathExtension(name) = <<>> THEN name ELSE SubSeq(name, 1, Len(name) - 1)

\* impl From<&OsStr> for FileExtension.
FileExtensionFrom(value) ==
    CASE FoldSegment(value) = "esm" -> "Esm"
      [] FoldSegment(value) = "esl" -> "Esl"
      [] FoldSegment(value) = "ghost" -> "Ghost"
      [] OTHER -> "Unrecognised"

\* Plugin::file_extension.
file_extension(self) ==
    LET p == PathExtension(self.path.file_name)
    IN  IF p = <<>> THEN "Unrecognised"
        ELSE IF FileExtensionFrom(p[1]) = "Ghost"
             THEN LET inner == PathExtension(PathFileStem(self.path.file_name))
                  IN  IF inner = <<>> THEN "Unrecognised" ELSE FileExtensionFrom(inner[1])
        ELSE FileExtensionFrom(p[1])

\* flags & bit != 0, for a bit that is a power of two.
HasFlag(flags, bit) == (flags \div bit) % 2 = 1

\* Plugin::header_version: a sequence of at most one version.
header_version(self) ==
    IF self.data.header_record.hedr = <<>> THEN <<>>
    ELSE self.data.header_record.hedr[1].version

\* Plugin::is_master_flag_set: byte 4 of HEDR on Morrowind, the header flag
\* 0x1 otherwise.
is_master_flag_set(self) ==
    IF self.game_id = "Morrowind"
    THEN /\ self.data.header_record.hedr # <<>>
         /\ self.data.header_record.hedr[1].byte4 # <<>>
         /\ self.data.header_record.hedr[1].byte4[1] % 2 = 1
    ELSE HasFlag(self.data.header_record.flags, 1)

is_light_flag_set(self) ==
    CASE self.game_id = "Starfield" -> HasFlag(self.data.header_record.flags, 256)
      [] self.game_id \in {"SkyrimSE", "Fallout4"} -> HasFlag(self.data.header_record.flags, 512)
      [] OTHER -> FALSE

is_medium_flag_set(self) ==
    IF self.game_id = "Starfield" THEN HasFlag(self.data.header_record.flags, 1024) ELSE FALSE

is_update_flag_set(self) ==
    IF self.game_id = "Starfield" THEN HasFlag(self.data.header_record.flags, 512) ELSE FALSE

\* is_light_plugin letting the .esl extension decide on Starfield as well.
is_light_plugin_ignoring_update_flag(self) ==
    IF supports_light_plugins(self.game_id)
    THEN is_light_flag_set(self) \/ file_extension(self) = "Esl"
    ELSE FALSE

is_light_plugin(self) ==
    IF supports_light_plugins(self.game_id)
    THEN IF self.game_id = "Starfield"
         THEN is_light_flag_set(self)
              \/ (~is_update_flag_set(self) /\ file_extension(self) = "Esl")
         ELSE is_light_flag_set(self) \/ file_extension(self) = "Esl"
    ELSE FALSE

is_medium_plugin(self) == is_medium_flag_set(self) /\ ~is_light_plugin(self)

\* is_update_plugin without the look at the light flag.
is_update_plugin_ignoring_light_flag(self) ==
    /\ is_update_flag_set(self)
    /\ ~is_medium_flag_set(self)
    /\ masters(self.data.header_record).ok
    /\ masters(self.data.header_record).value # <<>>

\* Plugin::is_update_plugin; masters() failing counts as no masters.
is_update_plugin(self) ==
    /\ is_update_flag_set(self)
    /\ ~is_light_flag_set(self)
    /\ ~is_medium_flag_set(self)
    /\ masters(self.data.header_record).ok
    /\ masters(self.data.header_record).value # <<>>

\* is_master_file reading the file extension for every game.
is_master_file_by_extension(self) ==
    is_master_flag_set(self) \/ file_extension(self) \in {"Esm", "Esl"}

is_master_file(self) ==
    IF self.game_id \in {"Fallout4", "SkyrimSE", "Starfield"}
    THEN is_master_flag_set(self) \/ file_extension(self) \in {"Esm", "Esl"}
    ELSE is_master_flag_set(self)

scale(self) ==
    IF is_light_plugin(self) THEN "Small"
    ELSE IF is_medium_flag_set(self) THEN "Medium"
    ELSE "Full"

PluginMetadata(name, plugin_scale, record_ids) ==
    [filename |-> name, scale |-> plugin_scale, record_ids |-> record_ids]

(***************************************************************************)
(* Resolution of record ids.                                               *)
(***************************************************************************)
RECURSIVE FindMetadataByExactName(_, _)
\* The lookup comparing the names as they are written.
FindMetadataByExactName(metadata, master) ==
    IF metadata = <<>> THEN <<>>
    ELSE IF Head(metadata).filename = master THEN <<Head(metadata)>>
    ELSE FindMetadataByExactName(Tail(metadata), master)

RECURSIVE FindMetadata(_, _)
\* iter().find(|m| unicase::eq(&m.filename, master)): a sequence of at most
\* one metadata entry.
FindMetadata(metadata, master) ==
    IF metadata = <<>> THEN <<>>
    ELSE IF UnicaseEq(Head(metadata).filename, master) THEN <<Head(metadata)>>
    ELSE FindMetadata(Tail(metadata), master)

hashed_parent(game_id, parent_metadata) ==
    IF game_id = "Starfield"
    THEN SourcePluginParent(parent_metadata.filename, ObjectIndexMaskOf(parent_metadata.scale))
    ELSE SourcePluginParent(parent_metadata.filename, ObjectIndexMaskOf("Full"))

\* hashed_masters keeping the masters whose index does not fit a u8.
hashed_masters_keeping_all(master_names) ==
    [k \in 1..Len(master_names) |->
        SourcePluginMaster(master_names[k], <<(k - 1) * 256, 0>>, ObjectIndexMaskOf("Full"))]

\* hashed_masters numbering the masters from one.
hashed_masters_from_one(master_names) ==
    LET n == IF Len(master_names) > 256 THEN 256 ELSE Len(master_names)
    IN  [k \in 1..n |->
            SourcePluginMaster(master_names[k], <<(k % 256) * 256, 0>>, ObjectIndexMaskOf("Full"))]

\* The master at 0-based index i gets the mod index i << 24; an index that
\* does not fit a u8 is skipped.
hashed_masters(master_names) ==
    LET n == IF Len(master_names) > 256 THEN 256 ELSE Len(master_names)
    IN  [k \in 1..n |->
            SourcePluginMaster(master_names[k], <<(k - 1) * 256, 0>>, ObjectIndexMaskOf("Full"))]

\* x += inc on a u32 held as halves.  When the sum leaves the u32 range a
\* build with overflow checks panics with 'attempt to add with overflow' and
\* a build without them wraps at 2^32.
AddU32(x, inc, overflow_checks) ==
    LET lo == x[2] + inc[2]
        hi == x[1] + inc[1] + (lo \div 65536)
    IN  IF hi >= 65536 /\ overflow_checks THEN Err(AddOverflow)
        ELSE Ok(<<hi % 65536, lo % 65536>>)

\* One turn of the loop of hashed_masters_for_starfield: the entry pushed for
\* the master at index k and the counters after it, or the error of a master
\* without metadata, or the panic of the += that follows the push.
StarfieldMasterAt(master_names, masters_metadata, k, counters, overflow_checks) ==
    LET master == master_names[k]
        found == FindMetadata(masters_metadata, master)
    IN  IF found = <<>>
        THEN [result |-> Err(PluginMetadataNotFound(master)), counters |-> counters]
        ELSE LET master_scale == found[1].scale
                 mask == CASE master_scale = "Full" -> counters.full_mask
                           [] master_scale = "Medium" -> counters.medium_mask
                           [] master_scale = "Small" -> counters.small_mask
                 step == CASE master_scale = "Full" -> <<256, 0>>
                           [] master_scale = "Medium" -> <<1, 0>>
                           [] master_scale = "Small" -> <<0, 4096>>
                 hashed == SourcePluginMaster(master, mask, ObjectIndexMaskOf(master_scale))
                 added == AddU32(mask, step, overflow_checks)
             IN  IF ~added.ok THEN [result |-> added, counters |-> counters]
                 ELSE [result |-> Ok(<<hashed>>),
                       counters |->
                           CASE master_scale = "Full" ->
                                    [counters EXCEPT !.full_mask = added.value]
                             [] master_scale = "Medium" ->
                                    [counters EXCEPT !.medium_mask = added.value]
                             [] master_scale = "Small" ->
                                    [counters EXCEPT !.small_mask = added.value]]

RECURSIVE StarfieldMastersBetween(_, _, _, _, _, _)
\* The loop of hashed_masters_for_starfield over the masters at the indexes
\* lo..hi, in order, starting from the given counters: the turns of the first
\* half, then those of the second half from the counters the first half left.
StarfieldMastersBetween(master_names, masters_metadata, lo, hi, counters, overflow_checks) ==
    IF lo > hi THEN [result |-> Ok(<<>>), counters |-> counters]
    ELSE IF lo = hi THEN StarfieldMasterAt(master_names, masters_metadata, lo, counters, overflow_checks)
    ELSE LET mid == (lo + hi) \div 2
             first == StarfieldMastersBetween(master_names, masters_metadata, lo, mid, counters, overflow_checks)
         IN  IF ~first.result.ok THEN first
             ELSE LET second == StarfieldMastersBetween(master_names, masters_metadata,
                                    mid + 1, hi, first.counters, overflow_checks)
                  IN  IF ~second.result.ok THEN second
                      ELSE [result |-> Ok(first.result.value \o second.result.value),
                            counters |-> second.counters]

\* The counters start at 0, 0xFD00_0000 and 0xFE00_0000.
hashed_masters_for_starfield(master_names, masters_metadata, overflow_checks) ==
    StarfieldMastersBetween(master_names, masters_metadata, 1, Len(master_names),
        [full_mask |-> <<0, 0>>, medium_mask |-> <<64768, 0>>, small_mask |-> <<65024, 0>>], overflow_checks).result

\* resolve_form_ids without the sort.
resolve_form_ids_unsorted(game_id, form_ids, plugin_metadata, master_names, other_plugins_metadata, overflow_checks) ==
    LET parent == hashed_parent(game_id, plugin_metadata)
        hashed == IF game_id = "Starfield"
                  THEN hashed_masters_for_starfield(master_names, other_plugins_metadata, overflow_checks)
                  ELSE Ok(hashed_masters(master_names))
    IN  IF ~hashed.ok THEN hashed
        ELSE Ok([k \in 1..Len(form_ids) |-> FromFormId(parent, hashed.value, form_ids[k])])

resolve_form_ids(game_id, form_ids, plugin_metadata, master_names, other_plugins_metadata, overflow_checks) ==
    LET parent == hashed_parent(game_id, plugin_metadata)
        hashed == IF game_id = "Starfield"
                  THEN hashed_masters_for_starfield(master_names, other_plugins_metadata, overflow_checks)
                  ELSE Ok(hashed_masters(master_names))
    IN  IF ~hashed.ok THEN hashed
        ELSE Ok(SortIds([k \in 1..Len(form_ids) |-> FromFormId(parent, hashed.value, form_ids[k])]))

RECURSIVE MastersRecordIdsReportingLast(_, _)
\* The loop reporting the last master without metadata instead of the first.
MastersRecordIdsReportingLast(master_names, other_plugins_metadata) ==
    IF master_names = <<>> THEN Ok({})
    ELSE LET found == FindMetadata(other_plugins_metadata, Head(master_names))
             rest == MastersRecordIdsReportingLast(Tail(master_names), other_plugins_metadata)
         IN  IF ~rest.ok THEN rest
             ELSE IF found = <<>> THEN Err(PluginMetadataNotFound(Head(master_names)))
             ELSE Ok({found[1].record_ids[k] : k \in 1..Len(found[1].record_ids)}
                     \cup rest.value)

RECURSIVE MastersRecordIdsOfAllMetadata(_, _)
\* The loop taking the ids of every metadata entry once every master is found.
MastersRecordIdsOfAllMetadata(master_names, other_plugins_metadata) ==
    IF master_names = <<>>
    THEN Ok(UNION {{other_plugins_metadata[j].record_ids[k] :
                       k \in 1..Len(other_plugins_metadata[j].record_ids)} :
                   j \in 1..Len(other_plugins_metadata)})
    ELSE IF FindMetadata(other_plugins_metadata, Head(master_names)) = <<>>
         THEN Err(PluginMetadataNotFound(Head(master_names)))
    ELSE MastersRecordIdsOfAllMetadata(Tail(master_names), other_plugins_metadata)

RECURSIVE MastersRecordIds(_, _)
\* The loop of resolve_namespaced_ids: the set of the masters' record ids,
\* or the error for the first master without metadata.
MastersRecordIds(master_names, other_plugins_metadata) ==
    IF master_names = <<>> THEN Ok({})
    ELSE LET found == FindMetadata(other_plugins_metadata, Head(master_names))
         IN  IF found = <<>> THEN Err(PluginMetadataNotFound(Head(master_names)))
             ELSE LET rest == MastersRecordIds(Tail(master_names), other_plugins_metadata)
                  IN  IF rest.ok
                      THEN Ok({found[1].record_ids[k] : k \in 1..Len(found[1].record_ids)}
                              \cup rest.value)
                      ELSE rest

resolve_namespaced_ids(namespaced_ids, master_names, other_plugins_metadata) ==
    LET record_ids == MastersRecordIds(master_names, other_plugins_metadata)
    IN  IF ~record_ids.ok THEN record_ids
        ELSE Ok(SortIds([k \in 1..Len(namespaced_ids) |->
                            FromNamespacedId(namespaced_ids[k], record_ids.value)]))

WithRecordIds(self, record_ids) ==
    [self EXCEPT !.data = [header_record |-> self.data.header_record, record_ids |-> record_ids]]

\* resolve_record_ids dropping the ids of a plugin that is already resolved.
resolve_record_ids_resetting(self, plugins_metadata_slice, overflow_checks) ==
    CASE self.data.record_ids.variant = "FormIds" ->
             IF filename(self) = <<>>
             THEN [plugin |-> self, result |-> Err(NoFilename(self.path))]
             ELSE LET parent_metadata == PluginMetadata(filename(self)[1], scale(self), <<>>)
                      master_names == masters(self.data.header_record)
                  IN  IF ~master_names.ok THEN [plugin |-> self, result |-> master_names]
                      ELSE LET form_ids == resolve_form_ids(self.game_id, self.data.record_ids.ids,
                                               parent_metadata, master_names.value,
                                               plugins_metadata_slice, overflow_checks)
                           IN  IF ~form_ids.ok THEN [plugin |-> self, result |-> form_ids]
                               ELSE [plugin |-> WithRecordIds(self, Resolved(form_ids.value)),
                                     result |-> Ok(<<>>)]
      [] self.data.record_ids.variant = "NamespacedIds" ->
             LET master_names == masters(self.data.header_record)
             IN  IF ~master_names.ok THEN [plugin |-> self, result |-> master_names]
                 ELSE LET record_ids == resolve_namespaced_ids(self.data.record_ids.ids,
                                            master_names.value, plugins_metadata_slice)
                      IN  IF ~record_ids.ok THEN [plugin |-> self, result |-> record_ids]
                          ELSE [plugin |-> WithRecordIds(self, Resolved(record_ids.value)),
                                result |-> Ok(<<>>)]
      [] OTHER -> [plugin |-> WithRecordIds(self, RecordIdsNone), result |-> Ok(<<>>)]

\* resolve_record_ids taking the ids out of the plugin before it resolves
\* them, so that an error leaves the plugin without ids.
resolve_record_ids_taking_ids(self, plugins_metadata_slice, overflow_checks) ==
    LET taken == WithRecordIds(self, RecordIdsNone)
    IN  CASE self.data.record_ids.variant = "FormIds" ->
                 IF filename(self) = <<>>
                 THEN [plugin |-> taken, result |-> Err(NoFilename(self.path))]
                 ELSE LET parent_metadata == PluginMetadata(filename(self)[1], scale(self), <<>>)
                          master_names == masters(self.data.header_record)
                      IN  IF ~master_names.ok THEN [plugin |-> taken, result |-> master_names]
                          ELSE LET form_ids == resolve_form_ids(self.game_id,
                                                   self.data.record_ids.ids, parent_metadata,
                                                   master_names.value, plugins_metadata_slice, overflow_checks)
                               IN  IF ~form_ids.ok THEN [plugin |-> taken, result |-> form_ids]
                                   ELSE [plugin |-> WithRecordIds(self, Resolved(form_ids.value)),
                                         result |-> Ok(<<>>)]
          [] self.data.record_ids.variant = "NamespacedIds" ->
                 LET master_names == masters(self.data.header_record)
                 IN  IF ~master_names.ok THEN [plugin |-> taken, result |-> master_names]
                     ELSE LET record_ids == resolve_namespaced_ids(self.data.record_ids.ids,
                                                master_names.value, plugins_metadata_slice)
                          IN  IF ~record_ids.ok THEN [plugin |-> taken, result |-> record_ids]
                              ELSE [plugin |-> WithRecordIds(self, Resolved(record_ids.value)),
                                    result |-> Ok(<<>>)]
          [] OTHER -> [plugin |-> self, result |-> Ok(<<>>)]

\* Plugin::resolve_record_ids: the plugin afterwards and the result.
resolve_record_ids(self, plugins_metadata_slice, overflow_checks) ==
    CASE self.data.record_ids.variant = "FormIds" ->
             IF filename(self) = <<>>
             THEN [plugin |-> self, result |-> Err(NoFilename(self.path))]
             ELSE LET parent_metadata == PluginMetadata(filename(self)[1], scale(self), <<>>)
                      master_names == masters(self.data.header_record)
                  IN  IF ~master_names.ok THEN [plugin |-> self, result |-> master_names]
                      ELSE LET form_ids == resolve_form_ids(self.game_id, self.data.record_ids.ids,
                                               parent_metadata, master_names.value,
                                               plugins_metadata_slice, overflow_checks)
                           IN  IF ~form_ids.ok THEN [plugin |-> self, result |-> form_ids]
                               ELSE [plugin |-> WithRecordIds(self, Resolved(form_ids.value)),
                                     result |-> Ok(<<>>)]
      [] self.data.record_ids.variant = "NamespacedIds" ->
             LET master_names == masters(self.data.header_record)
             IN  IF ~master_names.ok THEN [plugin |-> self, result |-> master_names]
                 ELSE LET record_ids == resolve_namespaced_ids(self.data.record_ids.ids,
                                            master_names.value, plugins_metadata_slice)
                      IN  IF ~record_ids.ok THEN [plugin |-> self, result |-> record_ids]
                          ELSE [plugin |-> WithRecordIds(self, Resolved(record_ids.value)),
                                result |-> Ok(<<>>)]
      [] OTHER -> [plugin |-> self, result |-> Ok(<<>>)]

(***************************************************************************)
(* Reading a plugin.  A reader is described by what Record::read and the   *)
(* record id readers find in it: the header record or the failure to read  *)
(* it, then the ids of the records that follow or the failure to read      *)
(* them.  A TES3 stream holds Morrowind records, whose id is a namespaced  *)
(* id or is missing; a TES4 stream holds records with a form id.           *)
(***************************************************************************)
header_type(game_id) == IF game_id = "Morrowind" THEN "TES3" ELSE "TES4"

RECURSIVE PresentIds(_)
\* The ids that read_morrowind_record_ids pushes: records without an id are
\* skipped.
PresentIds(body) ==
    IF body = <<>> THEN <<>>
    ELSE IF Head(body) = NoNamespacedId THEN PresentIds(Tail(body))
    ELSE <<Head(body)>> \o PresentIds(Tail(body))

read_morrowind_record_ids(reader) ==
    IF reader.body_result # "Ok" THEN Err([kind |-> reader.body_result, path |-> NoPath, name |-> <<>>])
    ELSE Ok(NamespacedIds(SortIds(PresentIds(reader.body))))

read_form_ids(reader) ==
    IF reader.body_result # "Ok" THEN Err([kind |-> reader.body_result, path |-> NoPath, name |-> <<>>])
    ELSE Ok(FormIds(reader.body))

read_record_ids(reader, game_id) ==
    IF game_id = "Morrowind" THEN read_morrowind_record_ids(reader) ELSE read_form_ids(reader)

read_plugin(reader, game_id, options, expected_header_type) ==
    IF reader.header_result # "Ok" THEN Err(IoError)
    ELSE IF reader.header_record.header_type # expected_header_type THEN Err(ParsingError)
    ELSE IF options.header_only
         THEN Ok([header_record |-> reader.header_record, record_ids |-> RecordIdsNone])
    ELSE LET record_ids == read_record_ids(reader, game_id)
         IN  IF ~record_ids.ok THEN record_ids
             ELSE Ok([header_record |-> reader.header_record, record_ids |-> record_ids.value])

\* parse_reader resolving at once for every game but Morrowind.
parse_reader_resolving_starfield(self, reader, options) ==
    LET read == read_plugin(reader, self.game_id, options, header_type(self.game_id))
    IN  IF ~read.ok THEN [plugin |-> self, result |-> read]
        ELSE LET assigned == [self EXCEPT !.data = read.value]
             IN  IF self.game_id # "Morrowind"
                 THEN resolve_record_ids(assigned, <<>>, TRUE)
                 ELSE [plugin |-> assigned, result |-> Ok(<<>>)]

\* Plugin::parse_reader: the plugin afterwards and the result.  The
\* resolution it starts is of a game other than Starfield, which lays its
\* masters out with hashed_masters and never reaches the += of the Starfield
\* counters: the build makes no difference to it.
parse_reader(self, reader, options) ==
    LET read == read_plugin(reader, self.game_id, options, header_type(self.game_id))
    IN  IF ~read.ok THEN [plugin |-> self, result |-> read]
        ELSE LET assigned == [self EXCEPT !.data = read.value]
             IN  IF self.game_id # "Morrowind" /\ self.game_id # "Starfield"
                 THEN resolve_record_ids(assigned, <<>>, TRUE)
                 ELSE [plugin |-> assigned, result |-> Ok(<<>>)]

\* Plugin::parse_file: File::open, then parse_reader on the file.
parse_file(self, opened, reader, options) ==
    IF ~opened THEN [plugin |-> self, result |-> Err(IoError)]
    ELSE parse_reader(self, reader, options)

(***************************************************************************)
(* Queries.                                                                *)
(***************************************************************************)
is_overridden_record(id) == id.overridden_record

\* count_override_records taking unresolved namespaced ids for no ids.
count_override_records_lenient(self) ==
    CASE self.data.record_ids.variant \in {"None", "NamespacedIds"} -> Ok(0)
      [] self.data.record_ids.variant = "FormIds" -> Err(UnresolvedRecordIds(self.path))
      [] self.data.record_ids.variant = "Resolved" ->
             Ok(Cardinality({k \in 1..Len(self.data.record_ids.ids) :
                                is_overridden_record(self.data.record_ids.ids[k])}))

count_override_records(self) ==
    CASE self.data.record_ids.variant = "None" -> Ok(0)
      [] self.data.record_ids.variant \in {"FormIds", "NamespacedIds"} ->
             Err(UnresolvedRecordIds(self.path))
      [] self.data.record_ids.variant = "Resolved" ->
             Ok(Cardinality({k \in 1..Len(self.data.record_ids.ids) :
                                is_overridden_record(self.data.record_ids.ids[k])}))

\* RangeInclusive::contains on the object index of a resolved id.
is_object_index_in(id, range) == range.start <= id.object_index /\ id.object_index <= range.end

\* Plugin::valid_light_form_id_range; versions are in hundredths.
valid_light_form_id_range(self) ==
    CASE self.game_id = "SkyrimSE" ->
             IF header_version(self) = <<>> THEN [start |-> 0, end |-> 0]
             ELSE IF header_version(self)[1] < 171 THEN [start |-> 2048, end |-> 4095]
             ELSE [start |-> 0, end |-> 4095]
      [] self.game_id = "Fallout4" ->
             IF header_version(self) = <<>> THEN [start |-> 0, end |-> 0]
             ELSE IF header_version(self)[1] < 100 THEN [start |-> 2048, end |-> 4095]
             ELSE [start |-> 1, end |-> 4095]
      [] self.game_id = "Starfield" -> [start |-> 0, end |-> 4095]
      [] OTHER -> [start |-> 0, end |-> 0]

valid_medium_form_id_range(self) ==
    IF self.game_id = "Starfield" THEN [start |-> 0, end |-> 65535] ELSE [start |-> 0, end |-> 0]

\* is_valid_as_light_plugin holding overrides to the range as well.
is_valid_as_light_plugin_checking_overrides(self) ==
    IF supports_light_plugins(self.game_id)
    THEN CASE self.data.record_ids.variant = "None" -> Ok(TRUE)
           [] self.data.record_ids.variant = "FormIds" -> Err(UnresolvedRecordIds(self.path))
           [] self.data.record_ids.variant = "Resolved" ->
                  Ok(\A k \in 1..Len(self.data.record_ids.ids) :
                         is_object_index_in(self.data.record_ids.ids[k],
                                            valid_light_form_id_range(self)))
           [] self.data.record_ids.variant = "NamespacedIds" -> Ok(FALSE)
    ELSE Ok(FALSE)

is_valid_as_light_plugin(self) ==
    IF supports_light_plugins(self.game_id)
    THEN CASE self.data.record_ids.variant = "None" -> Ok(TRUE)
           [] self.data.record_ids.variant = "FormIds" -> Err(UnresolvedRecordIds(self.path))
           [] self.data.record_ids.variant = "Resolved" ->
                  Ok(\A k \in 1..Len(self.data.record_ids.ids) :
                         ~is_overridden_record(self.data.record_ids.ids[k]) =>
                             is_object_index_in(self.data.record_ids.ids[k],
                                                valid_light_form_id_range(self)))
           [] self.data.record_ids.variant = "NamespacedIds" -> Ok(FALSE)
    ELSE Ok(FALSE)

\* is_valid_as_medium_plugin without the check of the game.
is_valid_as_medium_plugin_of_any_game(self) ==
    CASE self.data.record_ids.variant = "None" -> Ok(TRUE)
      [] self.data.record_ids.variant = "FormIds" -> Err(UnresolvedRecordIds(self.path))
      [] self.data.record_ids.variant = "Resolved" ->
             Ok(\A k \in 1..Len(self.data.record_ids.ids) :
                    ~is_overridden_record(self.data.record_ids.ids[k]) =>
                        is_object_index_in(self.data.record_ids.ids[k],
                                           valid_medium_form_id_range(self)))
      [] self.data.record_ids.variant = "NamespacedIds" -> Ok(FALSE)

is_valid_as_medium_plugin(self) ==
    IF supports_medium_plugins(self.game_id)
    THEN CASE self.data.record_ids.variant = "None" -> Ok(TRUE)
           [] self.data.record_ids.variant = "FormIds" -> Err(UnresolvedRecordIds(self.path))
           [] self.data.record_ids.variant = "Resolved" ->
                  Ok(\A k \in 1..Len(self.data.record_ids.ids) :
                         ~is_overridden_record(self.data.record_ids.ids[k]) =>
                             is_object_index_in(self.data.record_ids.ids[k],
                                                valid_medium_form_id_range(self)))
           [] self.data.record_ids.variant = "NamespacedIds" -> Ok(FALSE)
    ELSE Ok(FALSE)

\* is_valid_as_update_plugin asking for one override only.
is_valid_as_update_plugin_with_any_override(self) ==
    IF self.game_id = "Starfield"
    THEN CASE self.data.record_ids.variant = "None" -> Ok(TRUE)
           [] self.data.record_ids.variant = "FormIds" -> Err(UnresolvedRecordIds(self.path))
           [] self.data.record_ids.variant = "Resolved" ->
                  Ok(\E k \in 1..Len(self.data.record_ids.ids) :
                         is_overridden_record(self.data.record_ids.ids[k]))
           [] self.data.record_ids.variant = "NamespacedIds" -> Ok(FALSE)
    ELSE Ok(FALSE)

is_valid_as_update_plugin(self) ==
    IF self.game_id = "Starfield"
    THEN CASE self.data.record_ids.variant = "None" -> Ok(TRUE)
           [] self.data.record_ids.variant = "FormIds" -> Err(UnresolvedRecordIds(self.path))
           [] self.data.record_ids.variant = "Resolved" ->
                  Ok(\A k \in 1..Len(self.data.record_ids.ids) :
                         is_overridden_record(self.data.record_ids.ids[k]))
           [] self.data.record_ids.variant = "NamespacedIds" -> Ok(FALSE)
    ELSE Ok(FALSE)

\* overlaps_with without the check of the other plugin.
overlaps_with_unchecked_other(self, other) ==
    LET left == self.data.record_ids
        right == other.data.record_ids
    IN  CASE left.variant = "FormIds" -> Err(UnresolvedRecordIds(self.path))
          [] left.variant = "Resolved" /\ right.variant = "Resolved" ->
                 Ok(sorted_slices_intersect(left.ids, right.ids))
          [] left.variant = "NamespacedIds" /\ right.variant = "NamespacedIds" ->
                 Ok(sorted_slices_intersect(left.ids, right.ids))
          [] OTHER -> Ok(FALSE)

\* overlaps_with naming its own path in both errors.
overlaps_with_own_path(self, other) ==
    LET left == self.data.record_ids
        right == other.data.record_ids
    IN  CASE left.variant = "FormIds" -> Err(UnresolvedRecordIds(self.path))
          [] left.variant # "FormIds" /\ right.variant = "FormIds" ->
                 Err(UnresolvedRecordIds(self.path))
          [] left.variant = "Resolved" /\ right.variant = "Resolved" ->
                 Ok(sorted_slices_intersect(left.ids, right.ids))
          [] left.variant = "NamespacedIds" /\ right.variant = "NamespacedIds" ->
                 Ok(sorted_slices_intersect(left.ids, right.ids))
          [] OTHER -> Ok(FALSE)

\* overlaps_with comparing resolved lists by whether both hold ids.
overlaps_with_when_both_hold_ids(self, other) ==
    LET left == self.data.record_ids
        right == other.data.record_ids
    IN  CASE left.variant = "FormIds" -> Err(UnresolvedRecordIds(self.path))
          [] left.variant # "FormIds" /\ right.variant = "FormIds" ->
                 Err(UnresolvedRecordIds(other.path))
          [] left.variant = "Resolved" /\ right.variant = "Resolved" ->
                 Ok(left.ids # <<>> /\ right.ids # <<>>)
          [] left.variant = "NamespacedIds" /\ right.variant = "NamespacedIds" ->
                 Ok(sorted_slices_intersect(left.ids, right.ids))
          [] OTHER -> Ok(FALSE)

overlaps_with(self, other) ==
    LET left == self.data.record_ids
        right == other.data.record_ids
    IN  CASE left.variant = "FormIds" -> Err(UnresolvedRecordIds(self.path))
          [] left.variant # "FormIds" /\ right.variant = "FormIds" ->
                 Err(UnresolvedRecordIds(other.path))
          [] left.variant = "Resolved" /\ right.variant = "Resolved" ->
                 Ok(sorted_slices_intersect(left.ids, right.ids))
          [] left.variant = "NamespacedIds" /\ right.variant = "NamespacedIds" ->
                 Ok(sorted_slices_intersect(left.ids, right.ids))
          [] OTHER -> Ok(FALSE)

RECURSIVE ScanOthersWithoutBreak(_, _, _)
\* The inner loop without its break: every other that holds the id counts.
ScanOthersWithoutBreak(id, others, j) ==
    IF j > Len(others) THEN Ok(0)
    ELSE LET other_ids == others[j].data.record_ids
             rest == ScanOthersWithoutBreak(id, others, j + 1)
         IN  IF other_ids.variant = "FormIds" THEN Err(UnresolvedRecordIds(others[j].path))
             ELSE IF ~rest.ok THEN rest
             ELSE IF other_ids.variant = "Resolved" /\ BinarySearchIsOk(other_ids.ids, id)
                  THEN Ok(rest.value + 1)
             ELSE rest

RECURSIVE ScanOthers(_, _, _)
\* The inner loop of overlap_size over the others from index j on, for one
\* resolved id: the error it returns, or what it adds to the count.
ScanOthers(id, others, j) ==
    IF j > Len(others) THEN Ok(0)
    ELSE LET other_ids == others[j].data.record_ids
         IN  IF other_ids.variant = "FormIds" THEN Err(UnresolvedRecordIds(others[j].path))
             ELSE IF other_ids.variant = "Resolved" /\ BinarySearchIsOk(other_ids.ids, id)
                  THEN Ok(1)
             ELSE ScanOthers(id, others, j + 1)

RECURSIVE CountResolvedFrom(_, _, _, _)
\* The outer loop of overlap_size over the resolved ids from index i on.
CountResolvedFrom(ids, others, i, count) ==
    IF i > Len(ids) THEN Ok(count)
    ELSE LET scanned == ScanOthers(ids[i], others, 1)
         IN  IF ~scanned.ok THEN scanned
             ELSE CountResolvedFrom(ids, others, i + 1, count + scanned.value)

overlap_size(self, others) ==
    LET own == self.data.record_ids
    IN  CASE own.variant = "FormIds" -> Err(UnresolvedRecordIds(self.path))
          [] own.variant = "Resolved" -> CountResolvedFrom(own.ids, others, 1, 0)
          [] own.variant = "NamespacedIds" ->
                 Ok(Cardinality({k \in 1..Len(own.ids) :
                        \E j \in 1..Len(others) :
                            /\ others[j].data.record_ids.variant = "NamespacedIds"
                            /\ BinarySearchIsOk(others[j].data.record_ids.ids, own.ids[k])}))
          [] own.variant = "None" -> Ok(0)

RECURSIVE plugins_metadata(_)
\* One PluginMetadata per plugin, in order, or the first NoFilename error.
plugins_metadata(plugin_list) ==
    IF plugin_list = <<>> THEN Ok(<<>>)
    ELSE LET plugin == Head(plugin_list)
         IN  IF filename(plugin) = <<>> THEN Err(NoFilename(plugin.path))
             ELSE LET record_ids ==
                          IF plugin.game_id = "Morrowind"
                             /\ plugin.data.record_ids.variant = "NamespacedIds"
                          THEN plugin.data.record_ids.ids
                          ELSE <<>>
                      rest == plugins_metadata(Tail(plugin_list))
                  IN  IF rest.ok
                      THEN Ok(<<PluginMetadata(filename(plugin)[1], scale(plugin), record_ids)>>
                              \o rest.value)
                      ELSE rest

(***************************************************************************)
(* The inputs of the operations.                                           *)
(***************************************************************************)
BlankEsm == <<"Blank", "esm">>

PathPool == {[dir |-> "Data", file_name |-> BlankEsm],
             [dir |-> "Data", file_name |-> <<"Dep", "esp">>],
             [dir |-> "Data", file_name |-> <<>>]}

\* Header flags a reader offers to a plugin of the game: none, and for
\* Starfield also the medium flag 0x0400 when the caller holds one plugin.
FlagsPool(game_id, held) == IF game_id = "Starfield" /\ held = 1 THEN {0, 1024} ELSE {0}

MastersPool == {<<>>, <<BlankEsm>>}

\* Raw form ids 0x0000_0001 and 0x0100_0002.
FormIdPool == {<<0, 1>>, <<256, 2>>}

NamespacedIdPool == {[record_type |-> "CELL", id |-> "b"],
                     [record_type |-> "GMST", id |-> "a"]}

\* The HEDR subrecord of the streams: version 1.0 and a zero byte 4.
PlainHedr == <<Hedr(<<100>>, <<0>>)>>

\* The header records of the game's own type.
HeaderRecords(game_id, held) ==
    [header_type : {header_type(game_id)}, flags : FlagsPool(game_id, held),
     masters : MastersPool, hedr : {PlainHedr}]

\* A header record of the other type.
ForeignHeaderRecord(game_id) ==
    [header_type |-> IF game_id = "Morrowind" THEN "TES4" ELSE "TES3", flags |-> 0,
     masters |-> <<>>, hedr |-> PlainHedr]

BodyPool(game_id) ==
    IF game_id = "Morrowind" THEN NamespacedIdPool \cup {NoNamespacedId} ELSE FormIdPool

\* The streams a plugin of the game is given to read when only the header is
\* asked for: the records after the header are not read.
HeaderReaders(game_id, held) ==
    {[header_result |-> "IoError", header_record |-> DefaultHeaderRecord,
      body_result |-> "Ok", body |-> <<>>]}
    \cup {[header_result |-> "Ok", header_record |-> h, body_result |-> "Ok", body |-> <<>>] :
             h \in HeaderRecords(game_id, held) \cup {ForeignHeaderRecord(game_id)}}

\* The streams a plugin of the game is given to read as a whole.
Readers(game_id, held) ==
    HeaderReaders(game_id, held)
    \cup {[header_result |-> "Ok", header_record |-> h, body_result |-> b, body |-> <<>>] :
             h \in HeaderRecords(game_id, held), b \in {"IoError", "ParsingError"}}
    \cup {[header_result |-> "Ok", header_record |-> h, body_result |-> "Ok", body |-> ids] :
             h \in HeaderRecords(game_id, held), ids \in SeqsUpTo(BodyPool(game_id), MaxIds)}

\* The streams by game, by the number of plugins the caller holds and by
\* whether only the header is asked for.
ReaderTable ==
    [g \in Games |->
        [n \in 1..2 |->
            [h \in BOOLEAN |-> IF h THEN HeaderReaders(g, n) ELSE Readers(g, n)]]]

ReadersFor(game_id, options) == ReaderTable[game_id][Len(plugins)][options.header_only]

\* The files found at a plugin's path: the streams of at most one record
\* after the header.
FileTable ==
    [g \in Games |->
        [n \in 1..2 |->
            [h \in BOOLEAN |-> {reader \in ReaderTable[g][n][h] : Len(reader.body) <= 1}]]]

FilesFor(game_id, options) == FileTable[game_id][Len(plugins)][options.header_only]

ParseOptions == [header_only : BOOLEAN]

\* The builds of the crate: with overflow checks (the dev and test profiles)
\* and without them (the release profile).
Builds == BOOLEAN

\* Metadata a caller can hold for a plugin of the game: of a plugin called
\* Blank.esm, of any scale (read for Starfield), with any sorted list of
\* namespaced ids (read for Morrowind).
MetadataPool(game_id) ==
    CASE game_id = "Starfield" ->
             {PluginMetadata(BlankEsm, s, <<>>) : s \in {"Full", "Medium", "Small"}}
      [] game_id = "Morrowind" ->
             {PluginMetadata(BlankEsm, "Full", SortIds(ids)) :
                 ids \in SeqsUpTo(NamespacedIdPool, MaxIds)}
      [] OTHER -> {PluginMetadata(BlankEsm, "Full", <<>>)}

\* The slices of pool entries, by game: empty, or of one entry.
PoolSlices == [g \in Games |-> {<<>>} \cup {<<m>> : m \in MetadataPool(g)}]

\* The slices passed to resolve_record_ids: of pool entries, or what
\* plugins_metadata returns for the plugins.
MetadataSlices(game_id) ==
    PoolSlices[game_id]
    \cup (IF plugins_metadata(plugins).ok THEN {plugins_metadata(plugins).value} ELSE {})

(***************************************************************************)
(* The state machine: a caller owns the plugins and calls parse_reader,    *)
(* parse_file and resolve_record_ids on them in any order.  The caller     *)
(* holds one plugin of any game and path, or two plugins called Blank.esm  *)
(* and Dep.esp.  last is a history variable: the most recent call of the   *)
(* caller that holds one plugin, and its result.                           *)
(***************************************************************************)
\* The games of the two plugins: between them their plugins reach every
\* variant of record ids.
PairGames == {"Morrowind", "Starfield"}

InitSingle ==
    plugins \in {<<NewPlugin(g, p)>> : g \in Games, p \in PathPool}

InitPair ==
    plugins \in {<<NewPlugin(g1, [dir |-> "Data", file_name |-> BlankEsm]),
                   NewPlugin(g2, [dir |-> "Data", file_name |-> <<"Dep", "esp">>])>> :
                    g1 \in PairGames, g2 \in PairGames}

Init ==
    /\ InitSingle \/ InitPair
    /\ last = [op |-> "new", plugin |-> 0, header_only |-> FALSE, result |-> Ok(<<>>)]

Called(op, i, header_only, outcome) ==
    /\ plugins' = [plugins EXCEPT ![i] = outcome.plugin]
    /\ last' = IF Len(plugins) = 1
               THEN [op |-> op, plugin |-> i, header_only |-> header_only,
                     result |-> outcome.result]
               ELSE last

ParseReader(i) ==
    \E options \in ParseOptions :
        \E reader \in ReadersFor(plugins[i].game_id, options) :
            Called("parse", i, options.header_only, parse_reader(plugins[i], reader, options))

\* The file at the plugin's path cannot be opened, or is any of the files.
ParseFile(i) ==
    \E options \in ParseOptions :
        \E reader \in FilesFor(plugins[i].game_id, options) :
            \E opened \in IF reader.header_result = "IoError" THEN BOOLEAN ELSE {TRUE} :
                Called("parse", i, options.header_only,
                       parse_file(plugins[i], opened, reader, options))

ResolveRecordIds(i) ==
    \E overflow_checks \in Builds :
    \E slice \in MetadataSlices(plugins[i].game_id) :
        Called("resolve_record_ids", i, FALSE, resolve_record_ids(plugins[i], slice, overflow_checks))

Next ==
    \/ \E i \in DOMAIN plugins : ParseReader(i)
    \/ \E i \in DOMAIN plugins : ParseFile(i)
    \/ \E i \in DOMAIN plugins : ResolveRecordIds(i)

Spec == Init /\ [][Next]_vars

(***************************************************************************)
(* Properties.                                                             *)
(***************************************************************************)
Variant(i) == plugins[i].data.record_ids.variant

Ids(i) == plugins[i].data.record_ids.ids

\* The lists of plugins passed as others to overlap_size.
OthersLists == {[k \in 1..Len(sel) |-> plugins[sel[k]]] : sel \in SeqsUpTo(DOMAIN plugins, MaxOthers)}

\* Two ids that neither precede the other.
Equivalent(x, y) == ~Less(x, y) /\ ~Less(y, x)

\* C1: after a successful parse_reader or parse_file the variant of
\* record_ids is decided by the options and the game alone: None for a
\* header-only parse; for a whole-plugin parse NamespacedIds in ascending
\* order for Morrowind, FormIds for Starfield, Resolved for any other game.
C1_ParseDecidesVariant ==
    (last.op = "parse" /\ last.result.ok) =>
        LET self == plugins[last.plugin]
        IN  IF last.header_only THEN self.data.record_ids = RecordIdsNone
            ELSE CASE self.game_id = "Morrowind" ->
                          /\ self.data.record_ids.variant = "NamespacedIds"
                          /\ \A k \in 1..(Len(self.data.record_ids.ids) - 1) :
                                 ~NamespacedIdLess(self.data.record_ids.ids[k + 1],
                                                   self.data.record_ids.ids[k])
                   [] self.game_id = "Starfield" -> self.data.record_ids.variant = "FormIds"
                   [] OTHER -> self.data.record_ids.variant = "Resolved"

\* A whole-plugin parse of a Starfield plugin succeeded and left two form ids.
C1_Witness ==
    /\ last.op = "parse" /\ last.result.ok /\ ~last.header_only
    /\ plugins[last.plugin].game_id = "Starfield"
    /\ Variant(last.plugin) = "FormIds"
    /\ Len(Ids(last.plugin)) = 2

\* C2: resolve_record_ids on a plugin whose record_ids is None or Resolved
\* returns Ok and leaves the plugin as it is, whatever metadata it is given.
C2_ResolveIdempotent ==
    \A overflow_checks \in Builds :
    \A i \in DOMAIN plugins :
        Variant(i) \in {"None", "Resolved"} =>
            \A slice \in MetadataSlices(plugins[i].game_id) :
                resolve_record_ids(plugins[i], slice, overflow_checks) = [plugin |-> plugins[i], result |-> Ok(<<>>)]

\* resolve_record_ids returned Ok on a Skyrim plugin, which a parse had left
\* resolved, and the plugin holds two resolved ids.
C2_Witness ==
    /\ last.op = "resolve_record_ids" /\ last.result.ok
    /\ plugins[last.plugin].game_id = "Skyrim"
    /\ Variant(last.plugin) = "Resolved"
    /\ Len(Ids(last.plugin)) = 2

\* C3: a Resolved list is in ascending order of (folded source plugin name,
\* object index), and resolving keeps every id, duplicates included.
C3_ResolvedSorted ==
    \A overflow_checks \in Builds :
    \A i \in DOMAIN plugins :
        /\ Variant(i) = "Resolved" =>
               \A k \in 1..(Len(Ids(i)) - 1) : ~ResolvedLess(Ids(i)[k + 1], Ids(i)[k])
        /\ Variant(i) \in {"FormIds", "NamespacedIds"} =>
               \A slice \in MetadataSlices(plugins[i].game_id) :
                   LET resolved == resolve_record_ids(plugins[i], slice, overflow_checks)
                   IN  resolved.result.ok =>
                           Len(resolved.plugin.data.record_ids.ids) = Len(Ids(i))

\* A resolved list of an id of a master followed by an id of the plugin
\* itself, and a resolved list that holds an id twice.
C3_Witness ==
    /\ \E i \in DOMAIN plugins :
           /\ Variant(i) = "Resolved" /\ Len(Ids(i)) = 2
           /\ Ids(i)[1].source # Ids(i)[2].source
    /\ \E i \in DOMAIN plugins :
           /\ Variant(i) = "Resolved" /\ Len(Ids(i)) = 2
           /\ Ids(i)[1] = Ids(i)[2]

\* C4: after a parse_reader or parse_file that returned an error the
\* plugin's data is the default data.
C4_FailedParseLeavesDefault ==
    (last.op = "parse" /\ ~last.result.ok) =>
        plugins[last.plugin].data = DefaultPluginData

\* C5: count_override_records is Err(UnresolvedRecordIds(own path)) exactly
\* for FormIds and NamespacedIds, Ok(0) for None, and for Resolved the number
\* of entries flagged as overrides.
C5_CountOverrideRecords ==
    \A i \in DOMAIN plugins :
        LET counted == count_override_records(plugins[i])
        IN  /\ ~counted.ok <=> Variant(i) \in {"FormIds", "NamespacedIds"}
            /\ ~counted.ok => counted.error = UnresolvedRecordIds(plugins[i].path)
            /\ Variant(i) = "None" => counted = Ok(0)
            /\ Variant(i) = "Resolved" =>
                   counted = Ok(Len(SelectSeq(Ids(i), LAMBDA id : id.overridden_record)))

\* A resolved list of one override and one new record.
C5_Witness ==
    \E i \in DOMAIN plugins :
        /\ Variant(i) = "Resolved" /\ Len(Ids(i)) = 2
        /\ count_override_records(plugins[i]) = Ok(1)

\* C6 as claimed: a plugin overlaps with itself in every state.
C6_AlwaysReflexive ==
    \A i \in DOMAIN plugins : overlaps_with(plugins[i], plugins[i]) = Ok(TRUE)

\* C6 as amended: a plugin overlaps with itself exactly when it holds at
\* least one id as NamespacedIds or Resolved; with None or an empty list the
\* answer is Ok(false), with FormIds it is Err(UnresolvedRecordIds).
C6_ReflexiveWhenNonEmpty ==
    \A i \in DOMAIN plugins :
        LET answer == overlaps_with(plugins[i], plugins[i])
        IN  CASE Variant(i) = "FormIds" -> answer = Err(UnresolvedRecordIds(plugins[i].path))
              [] Variant(i) \in {"NamespacedIds", "Resolved"} /\ Len(Ids(i)) > 0 ->
                     answer = Ok(TRUE)
              [] OTHER -> answer = Ok(FALSE)

\* A plugin holding two different resolved ids.
C6_Witness ==
    \E i \in DOMAIN plugins :
        /\ Variant(i) = "Resolved" /\ Len(Ids(i)) = 2
        /\ ResolvedLess(Ids(i)[1], Ids(i)[2])

\* C7: overlaps_with gives the same answer in both directions: both Ok
\* with the same boolean, or both an error.
C7_OverlapsSymmetric ==
    \A i \in DOMAIN plugins, j \in DOMAIN plugins :
        LET forth == overlaps_with(plugins[i], plugins[j])
            back == overlaps_with(plugins[j], plugins[i])
        IN  /\ forth.ok = back.ok
            /\ forth.ok => forth.value = back.value

\* Two plugins with different resolved lists that share an id.
C7_Witness ==
    /\ Len(plugins) = 2
    /\ Variant(1) = "Resolved" /\ Variant(2) = "Resolved"
    /\ Ids(1) # Ids(2)
    /\ Len(Ids(2)) = 2
    /\ overlaps_with(plugins[1], plugins[2]) = Ok(TRUE)

\* A resolved plugin beside a plugin that holds form ids.
C10_Witness ==
    /\ Len(plugins) = 2
    /\ Variant(1) = "Resolved" /\ Len(Ids(1)) > 0
    /\ Variant(2) = "FormIds"

\* The number of the plugin's ids that some other plugin of the same
\* variant holds.
SharedCount(self, others) ==
    Cardinality({k \in 1..Len(self.data.record_ids.ids) :
        \E j \in 1..Len(others) :
            /\ others[j].data.record_ids.variant = self.data.record_ids.variant
            /\ \E m \in 1..Len(others[j].data.record_ids.ids) :
                   Equivalent(self.data.record_ids.ids[k], others[j].data.record_ids.ids[m])})

\* C8: overlap_size of n copies of a plugin is overlap_size of one copy, and
\* an Ok overlap_size is the number of the plugin's ids held by at least one
\* of the others, so that no id is counted twice.
C8_OverlapSizeCountsOnce ==
    \A i \in DOMAIN plugins :
        /\ \A j \in DOMAIN plugins, n \in 1..MaxOthers :
               overlap_size(plugins[i], [k \in 1..n |-> plugins[j]])
                   = overlap_size(plugins[i], <<plugins[j]>>)
        /\ \A others \in OthersLists :
               LET size == overlap_size(plugins[i], others)
               IN  size.ok =>
                       /\ size.value = SharedCount(plugins[i], others)
                       /\ size.value <= Len(Ids(i))

\* Two resolved plugins, the first with an id that the second holds: the
\* size against two copies of the second is 1.
C8_Witness ==
    /\ Len(plugins) = 2
    /\ Variant(1) = "Resolved" /\ Variant(2) = "Resolved"
    /\ overlap_size(plugins[1], <<plugins[2], plugins[2]>>) = Ok(1)

\* C9: overlap_size of a resolved plugin is Err(UnresolvedRecordIds)
\* whenever one of the others holds FormIds, whatever the ids of the plugin
\* and wherever the unresolved plugin stands among the others.
C9_UnresolvedOtherIsError ==
    \A i \in DOMAIN plugins :
        \A others \in OthersLists :
            (/\ Variant(i) = "Resolved"
             /\ \E j \in 1..Len(others) : others[j].data.record_ids.variant = "FormIds")
            => LET size == overlap_size(plugins[i], others)
               IN  ~size.ok /\ size.error.kind = "UnresolvedRecordIds"

\* C10: overlaps_with is an error exactly when one side holds FormIds, and
\* the error names the plugin itself if it holds FormIds and the other
\* plugin otherwise; any other pair of plugins of different variants, or
\* with a None, gives Ok(false).
C10_OverlapsErrors ==
    \A i \in DOMAIN plugins, j \in DOMAIN plugins :
        LET answer == overlaps_with(plugins[i], plugins[j])
        IN  /\ ~answer.ok <=> (Variant(i) = "FormIds" \/ Variant(j) = "FormIds")
            /\ Variant(i) = "FormIds" => answer = Err(UnresolvedRecordIds(plugins[i].path))
            /\ (Variant(i) # "FormIds" /\ Variant(j) = "FormIds") =>
                   answer = Err(UnresolvedRecordIds(plugins[j].path))
            /\ (/\ Variant(i) # "FormIds" /\ Variant(j) # "FormIds"
                /\ (Variant(i) # Variant(j) \/ Variant(i) = "None")) =>
                   answer = Ok(FALSE)

(***************************************************************************)
(* Metadata of the plugins and resolution without metadata.                *)
(***************************************************************************)
\* The namespaced ids a plugin holds, resolved or not, in the order it holds
\* them.
NamespacedListOf(plugin) ==
    CASE plugin.data.record_ids.variant = "NamespacedIds" -> plugin.data.record_ids.ids
      [] plugin.data.record_ids.variant = "Resolved" ->
             [k \in 1..Len(plugin.data.record_ids.ids) |->
                 plugin.data.record_ids.ids[k].namespaced_id]
      [] OTHER -> <<>>

\* C13: for plugins that all have a file name, plugins_metadata returns one
\* entry per plugin, in order; the entry of a Morrowind plugin that was
\* parsed as a whole holds the plugin's namespaced ids, before and after
\* resolve_record_ids, and the entry of a plugin of another game holds none.
C13_MetadataHoldsNamespacedIds ==
    (\A i \in DOMAIN plugins : filename(plugins[i]) # <<>>) =>
        LET metadata == plugins_metadata(plugins)
        IN  /\ metadata.ok
            /\ Len(metadata.value) = Len(plugins)
            /\ \A i \in DOMAIN plugins :
                   /\ metadata.value[i].filename = plugins[i].path.file_name
                   /\ (plugins[i].game_id = "Morrowind"
                          /\ Variant(i) \in {"NamespacedIds", "Resolved"}) =>
                          metadata.value[i].record_ids = NamespacedListOf(plugins[i])
                   /\ plugins[i].game_id # "Morrowind" => metadata.value[i].record_ids = <<>>

\* C14: resolve_record_ids with no metadata succeeds, in every build, on a
\* plugin parsed as a whole whose path has a file name, if the game is not
\* Starfield or the plugin has no masters (the doc comment of
\* resolve_record_ids: "plugins_metadata can be empty for all games other
\* than Starfield, and for Starfield plugins with no masters").
C14_EmptyMetadataSuffices ==
    \A overflow_checks \in Builds :
    \A i \in DOMAIN plugins :
        (/\ Variant(i) # "None"
         /\ filename(plugins[i]) # <<>>
         /\ (plugins[i].game_id # "Starfield" \/ plugins[i].data.header_record.masters = <<>>))
        => resolve_record_ids(plugins[i], <<>>, overflow_checks).result.ok

(***************************************************************************)
(* The resolving caller: one Morrowind or Starfield plugin called          *)
(* Blank.esp, in either letter case or without a file name, read from      *)
(* streams with up to two masters and resolved with slices of up to two    *)
(* metadata entries.                                                       *)
(***************************************************************************)
ResolverGames == {"Morrowind", "Starfield"}

ResolverPaths == {[dir |-> "Data", file_name |-> <<"Blank", "esp">>],
                  [dir |-> "Data", file_name |-> <<"BLANK", "ESP">>],
                  [dir |-> "Data", file_name |-> <<>>]}

ResolverMasters == {<<>>, <<BlankEsm>>, <<<<"BLANK", "ESM">>>>,
                    <<BlankEsm, <<"Dep", "esp">>>>, <<<<"Dep", "esp">>, BlankEsm>>}

ResolverNames == {BlankEsm, <<"BLANK", "ESM">>, <<"Dep", "esp">>}

ResolverHeaderRecords(game_id) ==
    [header_type : {header_type(game_id)}, flags : {0}, masters : ResolverMasters,
     hedr : {PlainHedr}]

\* The streams by game and by whether only the header is asked for.
ResolverReaderTable ==
    [g \in ResolverGames |->
        [h \in BOOLEAN |->
            {[header_result |-> "Ok", header_record |-> r, body_result |-> "Ok", body |-> ids] :
                r \in ResolverHeaderRecords(g),
                ids \in IF h THEN {<<>>}
                        ELSE SeqsUpTo(IF g = "Morrowind" THEN NamespacedIdPool ELSE FormIdPool,
                                      MaxIds)}]]

\* Metadata of the three names: of either scale for Starfield, with at most
\* one namespaced id for Morrowind.
ResolverMetadata(game_id) ==
    IF game_id = "Starfield"
    THEN {PluginMetadata(n, sc, <<>>) : n \in ResolverNames, sc \in {"Full", "Small"}}
    ELSE {PluginMetadata(n, "Full", ids) : n \in ResolverNames, ids \in SeqsUpTo(NamespacedIdPool, 1)}

ResolverSlices == [g \in ResolverGames |-> SeqsUpTo(ResolverMetadata(g), 2)]

ResolverInit ==
    /\ plugins \in {<<NewPlugin(g, p)>> : g \in ResolverGames, p \in ResolverPaths}
    /\ last = [op |-> "new", plugin |-> 0, header_only |-> FALSE, result |-> Ok(<<>>)]

ResolverParse(i) ==
    \E options \in ParseOptions :
        \E reader \in ResolverReaderTable[plugins[i].game_id][options.header_only] :
            Called("parse", i, options.header_only, parse_reader(plugins[i], reader, options))

ResolverResolve(i) ==
    \E overflow_checks \in Builds :
    \E slice \in ResolverSlices[plugins[i].game_id] :
        Called("resolve_record_ids", i, FALSE, resolve_record_ids(plugins[i], slice, overflow_checks))

ResolverNext ==
    \/ \E i \in DOMAIN plugins : ResolverParse(i)
    \/ \E i \in DOMAIN plugins : ResolverResolve(i)

ResolverSpec == ResolverInit /\ [][ResolverNext]_vars

\* The plugin holds ids that resolve_record_ids resolves with the metadata
\* of its masters.
NeedsMasters(i) ==
    \/ plugins[i].game_id = "Starfield" /\ Variant(i) = "FormIds"
    \/ plugins[i].game_id = "Morrowind" /\ Variant(i) = "NamespacedIds"

\* The positions in the plugin's master list of the masters that no entry of
\* the slice is named after, letter case aside.
MissingMasters(i, slice) ==
    {k \in 1..Len(plugins[i].data.header_record.masters) :
        \A j \in 1..Len(slice) :
            ~UnicaseEq(slice[j].filename, plugins[i].data.header_record.masters[k])}

FirstOf(positions) == CHOOSE k \in positions : \A other \in positions : k <= other

\* C11 as claimed: when a master has no metadata, resolve_record_ids
\* fails with PluginMetadataNotFound naming the first such master.
C11_MissingMetadataNamesFirstMaster ==
    \A overflow_checks \in Builds :
    \A i \in DOMAIN plugins :
        NeedsMasters(i) =>
            \A slice \in ResolverSlices[plugins[i].game_id] :
                MissingMasters(i, slice) # {} =>
                    resolve_record_ids(plugins[i], slice, overflow_checks).result =
                        Err(PluginMetadataNotFound(
                            plugins[i].data.header_record.masters[FirstOf(MissingMasters(i, slice))]))

\* C11 as amended: it does so unless the plugin is a Starfield plugin whose
\* path has no file name, which fails with NoFilename; in both cases the
\* plugin is left as it was.
C11_MissingMetadataAfterFilename ==
    \A overflow_checks \in Builds :
    \A i \in DOMAIN plugins :
        NeedsMasters(i) =>
            \A slice \in ResolverSlices[plugins[i].game_id] :
                MissingMasters(i, slice) # {} =>
                    LET resolved == resolve_record_ids(plugins[i], slice, overflow_checks)
                    IN  /\ resolved.plugin = plugins[i]
                        /\ resolved.result =
                               IF plugins[i].game_id = "Starfield" /\ filename(plugins[i]) = <<>>
                               THEN Err(NoFilename(plugins[i].path))
                               ELSE Err(PluginMetadataNotFound(
                                        plugins[i].data.header_record.masters[
                                            FirstOf(MissingMasters(i, slice))]))

\* resolve_record_ids failed on a plugin with two masters naming the second:
\* the first master had metadata.
C11_Witness ==
    /\ last.op = "resolve_record_ids" /\ ~last.result.ok
    /\ last.result.error.kind = "PluginMetadataNotFound"
    /\ Len(plugins[last.plugin].data.header_record.masters) = 2
    /\ last.result.error.name = plugins[last.plugin].data.header_record.masters[2]

\* The upper-case form of a segment of a file name.
UpperSegment(s) ==
    CASE s \in {"Blank", "BLANK", "blank"} -> "BLANK"
      [] s \in {"Dep", "DEP", "dep"} -> "DEP"
      [] s \in {"esm", "ESM", "Esm"} -> "ESM"
      [] s \in {"esp", "ESP"} -> "ESP"
      [] OTHER -> s

Recased(name) == [k \in 1..Len(name) |-> UpperSegment(name[k])]

RecasedNames(names) == [k \in 1..Len(names) |-> Recased(names[k])]

RecasedSlice(slice) ==
    [j \in 1..Len(slice) |->
        PluginMetadata(Recased(slice[j].filename), slice[j].scale, slice[j].record_ids)]

\* Two results that are both errors or both Ok with the same value.
SameOutcome(a, b) == a.ok = b.ok /\ (a.ok => a.value = b.value)

\* C12: resolve_form_ids gives the same list for the raw form ids of a
\* plugin when the plugin's name and its masters' names are written in
\* another letter case, for every game, and hashed_masters_for_starfield
\* finds the same metadata when the metadata's names are.
C12_NamesMatchCaseInsensitively ==
    \A overflow_checks \in Builds :
    \A i \in DOMAIN plugins :
        (Variant(i) = "FormIds" /\ filename(plugins[i]) # <<>>) =>
            LET master_names == plugins[i].data.header_record.masters
                parent == PluginMetadata(filename(plugins[i])[1], scale(plugins[i]), <<>>)
                recased_parent == PluginMetadata(Recased(parent.filename), parent.scale, <<>>)
            IN  \A slice \in ResolverSlices[plugins[i].game_id] :
                    /\ \A g \in Games :
                           SameOutcome(
                               resolve_form_ids(g, Ids(i), parent, master_names, slice, overflow_checks),
                               resolve_form_ids(g, Ids(i), recased_parent,
                                                RecasedNames(master_names), slice, overflow_checks))
                    /\ SameOutcome(
                           hashed_masters_for_starfield(master_names, slice, overflow_checks),
                           hashed_masters_for_starfield(master_names, RecasedSlice(slice), overflow_checks))

\* A plugin called BLANK.ESP with the master BLANK.ESM was resolved: it
\* holds an override of blank.esm and a new record of blank.esp.
C12_Witness ==
    /\ last.op = "resolve_record_ids" /\ last.result.ok
    /\ plugins[last.plugin].path.file_name = <<"BLANK", "ESP">>
    /\ plugins[last.plugin].data.header_record.masters = <<<<"BLANK", "ESM">>>>
    /\ Variant(last.plugin) = "Resolved" /\ Len(Ids(last.plugin)) = 2
    /\ Ids(last.plugin)[1].source = <<"blank", "esm">> /\ Ids(last.plugin)[1].overridden_record
    /\ Ids(last.plugin)[2].source = <<"blank", "esp">> /\ ~Ids(last.plugin)[2].overridden_record

\* The ids of the first entry of the slice named after the master, letter
\* case aside.
MatchedRecordIds(slice, master) ==
    IF \A j \in 1..Len(slice) : ~UnicaseEq(slice[j].filename, master) THEN {}
    ELSE LET first == CHOOSE j \in 1..Len(slice) :
                          /\ UnicaseEq(slice[j].filename, master)
                          /\ \A earlier \in 1..(j - 1) : ~UnicaseEq(slice[earlier].filename, master)
         IN  {slice[first].record_ids[k] : k \in 1..Len(slice[first].record_ids)}

\* C15: once a Morrowind plugin is resolved, count_override_records is the
\* number of its ids, each counted as often as it is held, that the metadata
\* matched to one of its masters holds; an id held only by metadata of other
\* plugins is a new record.
C15_MorrowindOverridesAreMastersIds ==
    \A overflow_checks \in Builds :
    \A i \in DOMAIN plugins :
        (plugins[i].game_id = "Morrowind" /\ Variant(i) = "NamespacedIds") =>
            \A slice \in ResolverSlices["Morrowind"] :
                LET resolved == resolve_record_ids(plugins[i], slice, overflow_checks)
                    master_names == plugins[i].data.header_record.masters
                IN  resolved.result.ok =>
                        count_override_records(resolved.plugin) =
                            Ok(Cardinality({k \in 1..Len(Ids(i)) :
                                   \E m \in 1..Len(master_names) :
                                       Ids(i)[k] \in MatchedRecordIds(slice, master_names[m])}))

\* A resolved Morrowind plugin with one master holds an id twice as an
\* override, or an override and a new record.
C15_Witness ==
    /\ last.op = "resolve_record_ids" /\ last.result.ok
    /\ plugins[last.plugin].game_id = "Morrowind"
    /\ Len(plugins[last.plugin].data.header_record.masters) = 1
    /\ Variant(last.plugin) = "Resolved" /\ Len(Ids(last.plugin)) = 2
    /\ Ids(last.plugin)[1].overridden_record
    /\ \/ ~Ids(last.plugin)[2].overridden_record
       \/ Ids(last.plugin)[2] = Ids(last.plugin)[1]

(***************************************************************************)
(* The querying caller: one plugin of any game, at a path with any of the  *)
(* extensions, read from streams with any of the header flags and HEDR     *)
(* subrecords the queries read, and asked what kind of plugin it is.  This *)
(* caller keeps no record of its calls.                                    *)
(***************************************************************************)
QueryPaths ==
    {[dir |-> "Data", file_name |-> n] :
        n \in {<<"Blank", "esp">>, <<"Blank", "ESM">>, <<"Blank", "esl">>,
               <<"Blank", "esm", "ghost">>, <<"Blank", "ESL", "GHOST">>,
               <<"Blank", "esp", "ghost">>, <<"Blank", "esl", "ghost", "ghost">>, <<>>}}

\* The sums of the flags a game reads: master 0x1, light 0x100 (Starfield) or
\* 0x200 (Skyrim SE, Fallout 4), update 0x200 and medium 0x400 (Starfield).
QueryFlags(game_id) ==
    CASE game_id = "Starfield" ->
             {a + b + c + d : a \in {0, 1}, b \in {0, 256}, c \in {0, 512}, d \in {0, 1024}}
      [] game_id \in {"SkyrimSE", "Fallout4"} -> {a + c : a \in {0, 1}, c \in {0, 512}}
      [] OTHER -> {0, 1}

\* The flags of the streams that hold records after the header.
QueryBodyFlags(game_id) == IF game_id = "Starfield" THEN {0, 256} ELSE {0}

\* No HEDR subrecord, or one with the versions around the game's threshold;
\* for Morrowind one too short to be read, and either value of byte 4.
QueryHedrs(game_id) ==
    CASE game_id = "SkyrimSE" -> {<<>>, <<Hedr(<<170>>, <<0>>)>>, <<Hedr(<<171>>, <<0>>)>>}
      [] game_id = "Fallout4" -> {<<>>, <<Hedr(<<95>>, <<0>>)>>, <<Hedr(<<100>>, <<0>>)>>}
      [] game_id = "Morrowind" ->
             {<<>>, <<Hedr(<<>>, <<>>)>>, <<Hedr(<<120>>, <<0>>)>>, <<Hedr(<<120>>, <<1>>)>>}
      [] OTHER -> {PlainHedr}

QueryMasters == {<<>>, <<<<"Dep", "esp">>>>}

\* Raw form ids 0x0000_1000, 0x0100_0800 and 0x0100_0000.
QueryFormIdPool == {<<0, 4096>>, <<256, 2048>>, <<256, 0>>}

QueryHeaderRecords(game_id, flags) ==
    [header_type : {header_type(game_id)}, flags : flags, masters : QueryMasters,
     hedr : QueryHedrs(game_id)]

\* The streams by game: a header alone, or a header followed by records.
QueryReaders(game_id) ==
    {[header_result |-> "Ok", header_record |-> r, body_result |-> "Ok", body |-> <<>>] :
        r \in QueryHeaderRecords(game_id, QueryFlags(game_id))}
    \cup {[header_result |-> "Ok", header_record |-> r, body_result |-> "Ok", body |-> ids] :
             r \in QueryHeaderRecords(game_id, QueryBodyFlags(game_id)),
             ids \in IF game_id = "Morrowind" THEN SeqsUpTo(NamespacedIdPool, 1)
                     ELSE SeqsUpTo(QueryFormIdPool, MaxIds)}

\* The streams by game and by whether only the header is asked for: the
\* records after the header are not read then, so the streams with a header
\* alone stand for all.
QueryReaderTable ==
    [g \in Games |->
        [h \in BOOLEAN |-> IF h THEN {reader \in QueryReaders(g) : reader.body = <<>>}
                           ELSE QueryReaders(g)]]

\* No metadata, or the metadata of the master.
QuerySlices == {<<>>, <<PluginMetadata(<<"Dep", "esp">>, "Full", <<>>)>>}

QueryInit ==
    /\ plugins \in {<<NewPlugin(g, p)>> : g \in Games, p \in QueryPaths}
    /\ last = [op |-> "new", plugin |-> 0, header_only |-> FALSE, result |-> Ok(<<>>)]

QueryParse(i) ==
    \E options \in ParseOptions :
        \E reader \in QueryReaderTable[plugins[i].game_id][options.header_only] :
            /\ plugins' = [plugins EXCEPT ![i] = parse_reader(plugins[i], reader, options).plugin]
            /\ UNCHANGED last

QueryResolve(i) ==
    \E overflow_checks \in Builds :
    \E slice \in QuerySlices :
        /\ plugins' = [plugins EXCEPT ![i] = resolve_record_ids(plugins[i], slice, overflow_checks).plugin]
        /\ UNCHANGED last

QueryNext ==
    \/ \E i \in DOMAIN plugins : QueryParse(i)
    \/ \E i \in DOMAIN plugins : QueryResolve(i)

QuerySpec == QueryInit /\ [][QueryNext]_vars

\* The plugin was read from a stream.
Parsed(i) == plugins[i].data.header_record.header_type # ""

\* The ids of the plugin's new records, in order.
NewRecords(i) == SelectSeq(Ids(i), LAMBDA id : ~id.overridden_record)

\* C16: for a game with light plugins and a resolved plugin,
\* is_valid_as_light_plugin is Ok(true) exactly when every new record has
\* its object index in the game's light range (by game and HEDR version:
\* 0x800..0xFFF before 1.71 on Skyrim SE and before 1.0 on Fallout 4,
\* 0..0xFFF and 1..0xFFF from then on, 0..0 without a version; 0..0xFFF on
\* Starfield), and the overrides make no difference to it.
C16_LightValidityOfNewRecords ==
    \A i \in DOMAIN plugins :
        (supports_light_plugins(plugins[i].game_id) /\ Variant(i) = "Resolved") =>
            LET version == header_version(plugins[i])
                first == CASE plugins[i].game_id = "Starfield" -> 0
                           [] version = <<>> -> 0
                           [] plugins[i].game_id = "SkyrimSE" ->
                                  IF version[1] < 171 THEN 2048 ELSE 0
                           [] plugins[i].game_id = "Fallout4" ->
                                  IF version[1] < 100 THEN 2048 ELSE 1
                final == IF plugins[i].game_id # "Starfield" /\ version = <<>> THEN 0 ELSE 4095
                without_overrides == WithRecordIds(plugins[i], Resolved(NewRecords(i)))
            IN  /\ is_valid_as_light_plugin(plugins[i]) =
                       Ok(\A k \in 1..Len(NewRecords(i)) :
                              /\ first <= NewRecords(i)[k].object_index
                              /\ NewRecords(i)[k].object_index <= final)
                /\ is_valid_as_light_plugin(plugins[i]) =
                       is_valid_as_light_plugin(without_overrides)

\* A resolved Skyrim SE plugin is valid as a light plugin with an override
\* of object index 0x1000 and a new record.
C16_Witness ==
    \E i \in DOMAIN plugins :
        /\ plugins[i].game_id = "SkyrimSE"
        /\ Variant(i) = "Resolved" /\ Len(Ids(i)) = 2
        /\ \E k \in 1..2 : Ids(i)[k].overridden_record /\ Ids(i)[k].object_index = 4096
        /\ \E k \in 1..2 : ~Ids(i)[k].overridden_record
        /\ is_valid_as_light_plugin(plugins[i]) = Ok(TRUE)

\* C17: for a game without the scale the validity query is Ok(false) in
\* every state: is_valid_as_light_plugin outside Fallout 4, Skyrim SE and
\* Starfield, is_valid_as_medium_plugin and is_valid_as_update_plugin
\* outside Starfield.
C17_UnsupportedScaleIsNeverValid ==
    \A i \in DOMAIN plugins :
        /\ plugins[i].game_id \notin {"Fallout4", "SkyrimSE", "Starfield"} =>
               is_valid_as_light_plugin(plugins[i]) = Ok(FALSE)
        /\ plugins[i].game_id # "Starfield" =>
               /\ is_valid_as_medium_plugin(plugins[i]) = Ok(FALSE)
               /\ is_valid_as_update_plugin(plugins[i]) = Ok(FALSE)

\* A plugin of a game without light plugins holds unresolved form ids.
C17_Witness ==
    \E i \in DOMAIN plugins :
        /\ plugins[i].game_id \notin {"Fallout4", "SkyrimSE", "Starfield", "Morrowind"}
        /\ Variant(i) = "FormIds" /\ Len(Ids(i)) > 0

\* C18: for a Starfield plugin is_valid_as_update_plugin is
\* Err(UnresolvedRecordIds) while it holds FormIds, Ok(true) when it holds
\* None, and for Resolved Ok(true) exactly when every id is an override.
C18_UpdateValidity ==
    \A i \in DOMAIN plugins :
        plugins[i].game_id = "Starfield" =>
            LET valid == is_valid_as_update_plugin(plugins[i])
            IN  /\ Variant(i) = "FormIds" => valid = Err(UnresolvedRecordIds(plugins[i].path))
                /\ Variant(i) = "None" => valid = Ok(TRUE)
                /\ Variant(i) = "Resolved" => valid = Ok(NewRecords(i) = <<>>)

\* A resolved Starfield plugin that holds two overrides.
C18_Witness ==
    \E i \in DOMAIN plugins :
        /\ plugins[i].game_id = "Starfield"
        /\ Variant(i) = "Resolved" /\ Len(Ids(i)) = 2
        /\ Ids(i)[1].overridden_record /\ Ids(i)[2].overridden_record

\* The final extension of the plugin's path is esl in some letter case.
HasEslExtension(i) ==
    /\ PathExtension(plugins[i].path.file_name) # <<>>
    /\ FoldSegment(PathExtension(plugins[i].path.file_name)[1]) = "esl"

\* C19 as claimed: a Starfield plugin at a .esl path with the update flag is
\* not a light plugin, whatever its other flags.
C19_UpdateFlagUnsetsLight ==
    \A i \in DOMAIN plugins :
        (/\ plugins[i].game_id = "Starfield"
         /\ HasEslExtension(i)
         /\ HasFlag(plugins[i].data.header_record.flags, 512))
        => ~is_light_plugin(plugins[i])

\* C19 as amended: such a plugin is a light plugin exactly when its light
\* flag 0x100 is set.
C19_UpdateFlagLeavesLightFlag ==
    \A i \in DOMAIN plugins :
        (/\ plugins[i].game_id = "Starfield"
         /\ HasEslExtension(i)
         /\ HasFlag(plugins[i].data.header_record.flags, 512))
        => (is_light_plugin(plugins[i]) <=> HasFlag(plugins[i].data.header_record.flags, 256))

\* A Starfield plugin at Blank.esl read with the update and medium flags and
\* without the light flag.
C19_Witness ==
    \E i \in DOMAIN plugins :
        /\ plugins[i].game_id = "Starfield" /\ Parsed(i)
        /\ plugins[i].path.file_name = <<"Blank", "esl">>
        /\ plugins[i].data.header_record.flags = 512 + 1024

\* C20: on Fallout 4, Skyrim SE and Starfield is_master_file is true exactly
\* when the master flag 0x1 is set or the extension, with a .ghost peeled and
\* letter case aside, is esm or esl; on every other game it is the master
\* flag alone (byte 4 of HEDR on Morrowind), whatever the extension.
C20_MasterFile ==
    \A i \in DOMAIN plugins :
        LET name == plugins[i].path.file_name
            final == IF Len(name) >= 2 THEN FoldSegment(name[Len(name)]) ELSE ""
            peeled == IF final = "ghost"
                      THEN IF Len(name) >= 3 THEN FoldSegment(name[Len(name) - 1]) ELSE ""
                      ELSE final
            header == plugins[i].data.header_record
        IN  is_master_file(plugins[i]) <=>
                CASE plugins[i].game_id \in {"Fallout4", "SkyrimSE", "Starfield"} ->
                         HasFlag(header.flags, 1) \/ peeled \in {"esm", "esl"}
                  [] plugins[i].game_id = "Morrowind" ->
                         /\ header.hedr # <<>>
                         /\ header.hedr[1].byte4 # <<>>
                         /\ header.hedr[1].byte4[1] % 2 = 1
                  [] OTHER -> HasFlag(header.flags, 1)

\* A Skyrim SE plugin at Blank.esm.ghost read without the master flag is a
\* master file.
C20_Witness ==
    \E i \in DOMAIN plugins :
        /\ plugins[i].game_id = "SkyrimSE" /\ Parsed(i)
        /\ plugins[i].path.file_name = <<"Blank", "esm", "ghost">>
        /\ ~HasFlag(plugins[i].data.header_record.flags, 1)
        /\ is_master_file(plugins[i])

(***************************************************************************)
(* The master table: one plugin called Blank.esp whose header lists up to  *)
(* a few hundred masters, read from a stream and, on Starfield, resolved   *)
(* with the metadata of the three master names.                            *)
(***************************************************************************)
MastersGames == {"Oblivion", "SkyrimSE", "Starfield"}

Repeat(x, n) == [k \in 1..n |-> x]

FullMaster == BlankEsm

MediumMaster == <<"Dep", "esp">>

SmallMaster == <<"Blank", "esl">>

\* Metadata of the three names, one of each scale.
MastersMetadata ==
    <<PluginMetadata(FullMaster, "Full", <<>>), PluginMetadata(MediumMaster, "Medium", <<>>),
      PluginMetadata(SmallMaster, "Small", <<>>)>>

\* Numbers of full masters that stay below the medium prefix 0xFD, reach it,
\* and fill every u8 index.
FullCounts == {0, 1, 2, 253, 254, 256}

\* Starfield master lists: runs of full, medium and small masters, two mixed
\* lists, and 257 medium masters before a small one.
StarfieldMasterLists ==
    {Repeat(FullMaster, f) \o Repeat(MediumMaster, m) \o Repeat(SmallMaster, s) :
        f \in FullCounts, m \in 0..2, s \in 0..1}
    \cup {<<MediumMaster, FullMaster, SmallMaster, FullMaster, MediumMaster, SmallMaster>>,
          <<SmallMaster, SmallMaster, MediumMaster, FullMaster>>,
          Repeat(MediumMaster, 257) \o <<SmallMaster>>}

\* Numbers of masters around the u8 limit of hashed_masters.
PlainCounts == {0, 1, 2, 255, 256, 257}

\* Master lists of the other games: Blank.esm repeated, then Dep.esp last.
PlainMasterLists == {[k \in 1..n |-> IF k = n THEN MediumMaster ELSE FullMaster] : n \in PlainCounts}

MasterLists(game_id) == IF game_id = "Starfield" THEN StarfieldMasterLists ELSE PlainMasterLists

\* Raw form ids 0x0000_0001, 0x0100_0002, 0xFD00_0001 and 0xFF00_0003.
MastersFormIdPool == {<<0, 1>>, <<256, 2>>, <<64768, 1>>, <<65280, 3>>}

MastersBodies ==
    SeqsUpTo(MastersFormIdPool, 1)
    \cup {<<<<0, 1>>, <<256, 2>>>>, <<<<256, 2>>, <<65280, 3>>>>, <<<<65280, 3>>, <<65280, 3>>>>,
          <<<<65280, 3>>, <<0, 1>>>>}

\* The streams by game and by whether only the header is asked for.
MastersReaderTable ==
    [g \in MastersGames |->
        [h \in BOOLEAN |->
            {[header_result |-> "Ok",
              header_record |-> [header_type |-> header_type(g), flags |-> 0, masters |-> m,
                                 hedr |-> PlainHedr],
              body_result |-> "Ok", body |-> ids] :
                m \in MasterLists(g), ids \in IF h THEN {<<>>} ELSE MastersBodies}]]

MastersSlices == {<<>>, MastersMetadata}

MastersInit ==
    /\ plugins \in {<<NewPlugin(g, [dir |-> "Data", file_name |-> <<"Blank", "esp">>])>> :
                       g \in MastersGames}
    /\ last = [op |-> "new", plugin |-> 0, header_only |-> FALSE, result |-> Ok(<<>>)]

MastersParse(i) ==
    \E options \in ParseOptions :
        \E reader \in MastersReaderTable[plugins[i].game_id][options.header_only] :
            Called("parse", i, options.header_only, parse_reader(plugins[i], reader, options))

MastersResolve(i) ==
    \E overflow_checks \in Builds :
    \E slice \in MastersSlices :
        Called("resolve_record_ids", i, FALSE, resolve_record_ids(plugins[i], slice, overflow_checks))

MastersNext ==
    \/ \E i \in DOMAIN plugins : MastersParse(i)
    \/ \E i \in DOMAIN plugins : MastersResolve(i)

MastersSpec == MastersInit /\ [][MastersNext]_vars

\* The master names of the plugin's header.
MasterNames(i) == plugins[i].data.header_record.masters

\* The scale the metadata gives to a master name.
ScaleOfMaster(name) ==
    CASE name = FullMaster -> "Full"
      [] name = MediumMaster -> "Medium"
      [] name = SmallMaster -> "Small"

\* The number of masters before position p that have the scale of the
\* master at p.
EarlierOfScale(names, p) ==
    Cardinality({q \in 1..(p - 1) : ScaleOfMaster(names[q]) = ScaleOfMaster(names[p])})

\* 0 + k * 0x0100_0000, 0xFD00_0000 + k * 0x0001_0000 and
\* 0xFE00_0000 + k * 0x0000_1000, as halves.
ExpectedMask(plugin_scale, k) ==
    CASE plugin_scale = "Full" -> <<k * 256, 0>>
      [] plugin_scale = "Medium" -> <<64768 + k, 0>>
      [] plugin_scale = "Small" -> <<65024 + ((k * 4096) \div 65536), (k * 4096) % 65536>>

\* C21: for every parsed Starfield plugin and every build,
\* hashed_masters_for_starfield with complete metadata returns one entry
\* per master, in the order of the list, and the k-th master of its scale
\* (k from 0) gets the mask k * 0x0100_0000 when full, 0xFD00_0000 +
\* k * 0x0001_0000 when medium, 0xFE00_0000 + k * 0x0000_1000 when small,
\* with the object index mask of its scale.
C21_StarfieldMasks ==
    \A i \in DOMAIN plugins :
        (plugins[i].game_id = "Starfield" /\ Parsed(i)) =>
            \A overflow_checks \in Builds :
                LET names == MasterNames(i)
                    hashed == hashed_masters_for_starfield(names, MastersMetadata, overflow_checks)
                IN  /\ hashed.ok
                    /\ Len(hashed.value) = Len(names)
                    /\ \A p \in 1..Len(names) :
                           hashed.value[p] =
                               [name |-> FoldName(names[p]),
                                mod_index_mask |->
                                    ExpectedMask(ScaleOfMaster(names[p]), EarlierOfScale(names, p)),
                                object_index_mask |-> ObjectIndexMaskOf(ScaleOfMaster(names[p]))]

\* The number of masters that get a mod index.
Indexed(n) == IF n > 256 THEN 256 ELSE n

\* C22: for a game other than Starfield, hashed_masters gives the master at
\* 0-based index i the mask i << 24 and the full object index mask when
\* i <= 255, and leaves out the masters above 255: min(n, 256) entries for n
\* masters, and the parse that uses them succeeds.
C22_PlainMasks ==
    \A i \in DOMAIN plugins :
        (plugins[i].game_id # "Starfield" /\ Parsed(i)) =>
            LET names == MasterNames(i)
                hashed == hashed_masters(names)
            IN  /\ Len(hashed) = Indexed(Len(names))
                /\ \A k \in 1..Len(hashed) :
                       /\ hashed[k].name = FoldName(names[k])
                       /\ hashed[k].mod_index_mask = <<(k - 1) * 256, 0>>
                       /\ hashed[k].object_index_mask = <<255, 65535>>
                /\ (last.op = "parse" /\ ~last.header_only) =>
                       (last.result.ok /\ Variant(i) = "Resolved")

\* A plugin with 257 masters has been read whole and holds resolved ids.
C22_Witness ==
    \E i \in DOMAIN plugins :
        /\ plugins[i].game_id = "Oblivion"
        /\ Len(MasterNames(i)) = 257
        /\ last.op = "parse" /\ last.result.ok
        /\ Variant(i) = "Resolved"
        /\ Len(Ids(i)) = 2
        /\ Len(hashed_masters(MasterNames(i))) = 256

\* The top 8 bits of a raw form id.
TopByte(raw) == raw[1] \div 256

\* The resolved id the claim expects for a raw form id of a plugin with
\* the given masters: an override owned by the master at the index of the
\* top byte, or a new record of the plugin itself.
ExpectedResolved(self, names, raw) ==
    IF TopByte(raw) < Indexed(Len(names))
    THEN [kind |-> "FormId", source |-> FoldName(names[TopByte(raw) + 1]),
          object_index |-> (raw[1] % 256) * 65536 + raw[2],
          namespaced_id |-> NoNamespacedId, overridden_record |-> TRUE]
    ELSE [kind |-> "FormId", source |-> FoldName(filename(self)[1]),
          object_index |-> (raw[1] % 256) * 65536 + raw[2],
          namespaced_id |-> NoNamespacedId, overridden_record |-> FALSE]

\* C23: for a game other than Morrowind and Starfield, reading a whole
\* stream resolves each raw form id to an override owned by master m when
\* its top 8 bits are m and m < min(number of masters, 256), and to a new
\* record of the plugin otherwise; count_override_records is then the
\* number of form ids whose top byte is below min(number of masters, 256).
C23_OverridesByTopByte ==
    \A i \in DOMAIN plugins :
        plugins[i].game_id \notin {"Morrowind", "Starfield"} =>
            \A reader \in MastersReaderTable[plugins[i].game_id][FALSE] :
                LET parsed == parse_reader(plugins[i], reader, [header_only |-> FALSE])
                    names == reader.header_record.masters
                    body == reader.body
                    ids == parsed.plugin.data.record_ids.ids
                IN  /\ parsed.result.ok
                    /\ parsed.plugin.data.record_ids.variant = "Resolved"
                    /\ Len(ids) = Len(body)
                    /\ {ids[k] : k \in 1..Len(ids)}
                           = {ExpectedResolved(plugins[i], names, body[k]) : k \in 1..Len(body)}
                    /\ count_override_records(parsed.plugin)
                           = Ok(Cardinality({k \in 1..Len(body) :
                                    TopByte(body[k]) < Indexed(Len(names))}))

\* A plugin with 256 masters holds two overrides, the form id 0xFF00_0003
\* as a record of its last master, Dep.esp.
C23_Witness ==
    \E i \in DOMAIN plugins :
        /\ plugins[i].game_id = "SkyrimSE"
        /\ Len(MasterNames(i)) = 256
        /\ Variant(i) = "Resolved"
        /\ Len(Ids(i)) = 2
        /\ \E k \in 1..Len(Ids(i)) :
               /\ Ids(i)[k].source = FoldName(MediumMaster)
               /\ Ids(i)[k].object_index = 3
               /\ Ids(i)[k].overridden_record
        /\ count_override_records(plugins[i]) = Ok(2)

\* C29: for every Starfield master list with complete metadata, in every
\* build, hashed_masters_for_starfield returns its list (no += overflows,
\* so the build with overflow checks does not panic) and the masks of any
\* two masters differ.
C29_MasksDistinctWithoutOverflow ==
    \A i \in DOMAIN plugins :
        (plugins[i].game_id = "Starfield" /\ Parsed(i)) =>
            \A overflow_checks \in Builds :
                LET names == MasterNames(i)
                    hashed == hashed_masters_for_starfield(names, MastersMetadata, overflow_checks)
                IN  /\ hashed.ok
                    /\ \A p, q \in 1..Len(hashed.value) :
                           p < q => hashed.value[p].mod_index_mask # hashed.value[q].mod_index_mask

RECURSIVE WithoutGhost(_)
\* The file name with every trailing .ghost removed.
WithoutGhost(name) ==
    IF Len(name) >= 2 /\ FoldSegment(name[Len(name)]) = "ghost"
    THEN WithoutGhost(SubSeq(name, 1, Len(name) - 1))
    ELSE name

\* C24: a plugin whose file name ends in one or more .ghost suffixes, in
\* any letter case, has the file extension, is_light_plugin and
\* is_master_file of the plugin whose name has all of them removed.
C24_GhostTransparent ==
    \A i \in DOMAIN plugins :
        LET bare == [plugins[i] EXCEPT !.path.file_name = WithoutGhost(@)]
        IN  /\ file_extension(plugins[i]) = file_extension(bare)
            /\ is_light_plugin(plugins[i]) = is_light_plugin(bare)
            /\ is_master_file(plugins[i]) = is_master_file(bare)

\* C25: a resolved Skyrim SE or Fallout 4 plugin without a HEDR version that
\* holds at least one new record is not valid as a light plugin, whatever
\* the object index of the record.
C25_NoVersionNoLightRecords ==
    \A i \in DOMAIN plugins :
        (/\ plugins[i].game_id \in {"SkyrimSE", "Fallout4"}
         /\ Variant(i) = "Resolved"
         /\ header_version(plugins[i]) = <<>>
         /\ NewRecords(i) # <<>>) =>
            is_valid_as_light_plugin(plugins[i]) = Ok(FALSE)

\* C26: a resolve_record_ids that returns an error leaves the plugin as it
\* was; the error is PluginMetadataNotFound or NoFilename, and after
\* PluginMetadataNotFound a call with the metadata of every master succeeds
\* and resolves the ids.
C26_FailedResolveLeavesPlugin ==
    \A overflow_checks \in Builds :
    \A i \in DOMAIN plugins :
        \A slice \in ResolverSlices[plugins[i].game_id] :
            LET resolved == resolve_record_ids(plugins[i], slice, overflow_checks)
            IN  ~resolved.result.ok =>
                    /\ resolved.plugin = plugins[i]
                    /\ resolved.result.error.kind \in {"PluginMetadataNotFound", "NoFilename"}
                    /\ resolved.result.error.kind = "PluginMetadataNotFound" =>
                           \E complete \in ResolverSlices[plugins[i].game_id] :
                               LET again == resolve_record_ids(resolved.plugin, complete, overflow_checks)
                               IN  /\ again.result.ok
                                   /\ again.plugin.data.record_ids.variant = "Resolved"
                                   /\ Len(again.plugin.data.record_ids.ids) = Len(Ids(i))

\* A resolve_record_ids has just failed for want of a master's metadata and
\* the plugin still holds its two unresolved ids.
C26_Witness ==
    /\ last.op = "resolve_record_ids" /\ ~last.result.ok
    /\ last.result.error.kind = "PluginMetadataNotFound"
    /\ Variant(last.plugin) \in {"FormIds", "NamespacedIds"}
    /\ Len(Ids(last.plugin)) = 2

\* C27: at most one of is_light_plugin, is_medium_plugin and
\* is_update_plugin is true of a plugin, its scale is Small exactly when it
\* is a light plugin and Medium exactly when it is a medium plugin.
C27_OneKindOfPlugin ==
    \A i \in DOMAIN plugins :
        LET self == plugins[i]
        IN  /\ ~(is_light_plugin(self) /\ is_medium_plugin(self))
            /\ ~(is_light_plugin(self) /\ is_update_plugin(self))
            /\ ~(is_medium_plugin(self) /\ is_update_plugin(self))
            /\ (scale(self) = "Small") <=> is_light_plugin(self)
            /\ (scale(self) = "Medium") <=> is_medium_plugin(self)
            /\ (scale(self) = "Full") <=> (~is_light_plugin(self) /\ ~is_medium_plugin(self))

\* A Starfield plugin with masters whose header has the light, update and
\* medium flags: a light plugin, and neither a medium nor an update plugin.
C27_Witness ==
    \E i \in DOMAIN plugins :
        /\ plugins[i].game_id = "Starfield" /\ Parsed(i)
        /\ plugins[i].data.header_record.masters # <<>>
        /\ plugins[i].data.header_record.flags = 256 + 512 + 1024
        /\ is_light_plugin(plugins[i]) /\ scale(plugins[i]) = "Small"
        /\ ~is_medium_plugin(plugins[i]) /\ ~is_update_plugin(plugins[i])

\* C28: when a.overlap_size([b]) and a.overlaps_with(b) are both Ok, the
\* first is positive exactly when the second is true; and an Ok
\* overlap_size(others) is at most the number of ids a holds.
C28_OverlapSizeAgrees ==
    \A i \in DOMAIN plugins :
        /\ \A j \in DOMAIN plugins :
               LET size == overlap_size(plugins[i], <<plugins[j]>>)
                   overlaps == overlaps_with(plugins[i], plugins[j])
               IN  (size.ok /\ overlaps.ok) => ((size.value > 0) <=> overlaps.value)
        /\ \A others \in OthersLists :
               LET size == overlap_size(plugins[i], others)
               IN  size.ok => size.value <= Len(Ids(i))

\* Two resolved plugins that hold two ids each and share one of them:
\* overlap_size is 1 and overlaps_with true.
C28_Witness ==
    \E i, j \in DOMAIN plugins :
        /\ i # j
        /\ Variant(i) = "Resolved" /\ Variant(j) = "Resolved"
        /\ Len(Ids(i)) = 2 /\ Len(Ids(j)) = 2
        /\ overlap_size(plugins[i], <<plugins[j]>>) = Ok(1)
        /\ overlaps_with(plugins[i], plugins[j]) = Ok(TRUE)

\* C30: the variant fits the game in every state: NamespacedIds only on
\* Morrowind, FormIds never on Morrowind, and on a game other than Morrowind
\* and Starfield no FormIds once a parse has returned.
C30_VariantFitsGame ==
    \A i \in DOMAIN plugins :
        /\ Variant(i) = "NamespacedIds" => plugins[i].game_id = "Morrowind"
        /\ Variant(i) = "FormIds" => plugins[i].game_id # "Morrowind"
        /\ plugins[i].game_id \notin {"Morrowind", "Starfield"} => Variant(i) # "FormIds"

====
